---- MODULE Spec2Model ----
(***************************************************************************)
(* DAMATS server: the Coverage Alignment Downloader.                       *)
(*                                                                         *)
(* One call of damats.processes.utils.download_coverages, step by step,    *)
(* together with the parts of damats.util.wcs_client.WCS20Client it uses   *)
(* (describe_coverage, get_coverage, _query, _query_xml).  The remote      *)
(* coverage service and the file system are the environment: every         *)
(* response, fault and I/O error they can produce is a nondeterministic    *)
(* choice of the step that meets it.                                       *)
(*                                                                         *)
(* Python's None and an absent keyword argument are the empty tuple; a     *)
(* present value v is the one-element tuple <<v>>.  Floating-point values  *)
(* (coordinates, scaling factors) are drawn from small sets of integers.   *)
(***************************************************************************)
EXTENDS Integers, Sequences, FiniteSets, TLC

VARIABLES
    pc,             \* position inside the call that is modelled
    coverages,      \* argument: the ordered coverage identifiers
    selection,      \* argument: selection['aoi']
    scaling_factor, \* argument
    interp_method,  \* argument
    dir,            \* output_dir on disk: "absent", "exists" (before the call), "created"
    fs,             \* files of output_dir: file name -> content
    idx,            \* loop index of enumerate(coverages)
    options,        \* local: keyword arguments of the next get_coverage call
    output_srid,    \* local: SRID of the master image
    gc_output_srid, \* local of get_coverage: its output_srid argument, then resolved
    caller,         \* who called describe_coverage: download_coverages or get_coverage
    images,         \* local: the list of downloaded file names
    requests,       \* every query sent to the service, in order
    streams,        \* open HTTP response streams
    files,          \* open output file handles
    exc,            \* the exception that left the call, if any
    result,         \* the returned value, once returned
    response,       \* WCS20Client._query: what urlopen meets
    img_class,      \* write_class_statistics argument: the classification raster
    img_class_ref,  \* argument: the reference class raster
    n_class,        \* argument: the class count the classifier declares
    ref_classes,    \* argument: the reference class table
    fout,           \* argument: a file name ("path") or an open file object ("file")
    tile_size,      \* tile_size_x, tile_size_y of _get_raw_pixel_counts
    counts,         \* local: the matrix of pixel counts
    tile,           \* number of loop bodies of _get_raw_pixel_counts done
    reads,          \* the windows read by ReadAsArray, in order
    out,            \* the output file: its state and the rows written
    source,         \* rasterize_shapes: the vector dataset opened from source
    layer_name,     \* argument
    template,       \* the raster dataset opened from template
    classes,        \* argument: the class table
    attrib,         \* argument: the name of the source attribute
    output,         \* the file named by output
    bbox,           \* local: what get_bbox returned
    filter_rect,    \* the arguments of layer.SetSpatialFilterRect
    cursor,         \* features of the layer passed by the reading so far
    fetched,        \* the features fetch_features has yielded
    virt_layer,     \* the features of the in-memory layer
    data_items,     \* GetPixelValue.execute: the data items of the coverage found
    latitude,       \* argument
    longitude,      \* argument
    item,           \* number of data items the loop has passed
    pixel_values,   \* local: the values collected
    events,         \* process_sits: the calls of context.update_progress and of
                    \* the stages, in order
    srid_arg,       \* pack_srs: its argument srid
    srs_arg,        \* parse_srs: its argument srs
    jobs,           \* the table of Job objects: identifier -> row
    job_id,         \* SITSProcessor: the input job_id of each WPS execution
    job,            \* SITSProcessor: the local Job object of each WPS execution
    time_series,    \* the table of TimeSeries objects: identifier -> row
    links,          \* the coverages linked to the collection of a time series
    purged,         \* the WPS jobs whose resources the back-end has purged
    request,        \* the REST request served last
    reply           \* the status of the response to it

\* the variables of download_coverages and of the client it drives
downloadVars == <<coverages, selection, scaling_factor, interp_method, dir, fs,
                  idx, options, output_srid, gc_output_srid, caller, images,
                  requests, streams, files>>

\* the variables of _query on its own
queryVars == <<response>>

\* the variables of write_class_statistics
statVars == <<img_class, img_class_ref, n_class, ref_classes, fout, tile_size,
              counts, tile, reads, out>>

\* the variables of rasterize_shapes
rasterizeVars == <<source, layer_name, template, classes, attrib, output, bbox,
                   filter_rect, cursor, fetched, virt_layer>>

\* the variables of ProcessLDA.process_sits besides those of download_coverages
pipelineVars == <<events>>

\* the variables of GetPixelValue.execute
pixelVars == <<data_items, latitude, longitude, item, pixel_values>>

\* the variables of parse_srs and pack_srs on their own
srsVars == <<srid_arg, srs_arg>>

\* the variables of SITSProcessor.initialize and SITSProcessor.execute
processorVars == <<jobs, job_id, job>>

\* the variables of the REST views besides the table of jobs
viewVars == <<time_series, links, purged, request, reply>>

\* the variables of the calls modelled after process_sits
laterVars == <<srsVars, processorVars, viewVars>>

\* the variables of the calls modelled after rasterize_shapes
moreVars == <<pixelVars, pipelineVars, laterVars>>

\* the variables download_coverages does not have
otherVars == <<queryVars, statVars, rasterizeVars, moreVars>>

\* the variables write_class_statistics does not have
nonStatVars == <<queryVars, rasterizeVars, moreVars>>

\* the variables rasterize_shapes does not have
nonRasterizeVars == <<queryVars, statVars, moreVars>>

\* the variables of download_coverages, _query, write_class_statistics and
\* rasterize_shapes
earlyVars == <<downloadVars, queryVars, statVars, rasterizeVars>>

\* the variables GetPixelValue.execute does not have
nonPixelVars == <<earlyVars, pipelineVars, laterVars>>

vars == <<pc, exc, result, downloadVars, otherVars>>

\* ------------------------------------------------------------------ bounds

MaxCov == 3

\* raster widths and heights
MaxSize == 3

\* tile sizes of _get_raw_pixel_counts (256 where the caller gives none)
MaxTile == 2

\* ------------------------------------------------------------ value spaces

None == <<>>
Some(v) == <<v>>

\* coverage identifiers; the callers pass the identifiers of the coverages
\* of one time series, which are unique
CovNames == <<"A", "B", "C", "D", "E">>

CovIds == {CovNames[i] : i \in 1..MaxCov}

\* the lists of distinct identifiers of at most n members
RECURSIVE ListsUpTo(_, _)
ListsUpTo(S, n) ==
    IF n = 0 THEN {<<>>}
    ELSE LET shorter == ListsUpTo(S, n - 1)
         IN  shorter \cup {Append(s, x) : s \in {t \in shorter : Len(t) = n - 1},
                                          x \in S}

CovLists == {l \in ListsUpTo(CovIds, MaxCov) :
                \A i, j \in 1..Len(l) : l[i] = l[j] => i = j}

OutputDir == "out"

AOIs == { [left |-> 10, right |-> 11, bottom |-> 45, top |-> 46],
          [left |-> 14, right |-> 16, bottom |-> 47, top |-> 48] }

ScalingFactors == {1, 2}

InterpMethods == {"nearest-neighbour", "average"}

SRID_WGS84 == 4326

\* strings are sequences of characters

Digits == <<"0", "1", "2", "3", "4", "5", "6", "7", "8", "9">>

IsDigit(c) == \E d \in 1..10 : Digits[d] = c

DigitValue(c) == (CHOOSE d \in 1..10 : Digits[d] = c) - 1

\* "%d" % n
RECURSIVE FormatNatural(_)
FormatNatural(n) ==
    IF n < 10 THEN <<Digits[n + 1]>>
    ELSE Append(FormatNatural(n \div 10), Digits[(n % 10) + 1])

FormatDecimal(n) == IF n < 0 THEN <<"-">> \o FormatNatural(0 - n) ELSE FormatNatural(n)

\* int(digits) for a non-empty sequence of digits
RECURSIVE ParseNatural(_)
ParseNatural(digits) ==
    IF Len(digits) = 1 THEN DigitValue(digits[1])
    ELSE (10 * ParseNatural(SubSeq(digits, 1, Len(digits) - 1)))
             + DigitValue(digits[Len(digits)])

\* the text before ([0-9]+) in RE_SRS and in the format of pack_srs
SrsPrefix ==
    <<"h", "t", "t", "p", ":", "/", "/", "w", "w", "w", ".", "o", "p",
      "e", "n", "g", "i", "s", ".", "n", "e", "t", "/", "d", "e", "f",
      "/", "c", "r", "s", "/", "E", "P", "S", "G", "/", "0", "/">>

\* RE_SRS.match(srs): the group ([0-9]+), or None for no match. In the
\* pattern a "." stands for any character but a newline, and "$" matches at
\* the end of the string and before a newline that ends it
RE_SRS_match(srs) ==
    LET n == Len(SrsPrefix)
        body == IF Len(srs) > 0 /\ srs[Len(srs)] = "\n"
                THEN SubSeq(srs, 1, Len(srs) - 1) ELSE srs
        group == SubSeq(body, n + 1, Len(body))
    IN  IF /\ Len(body) > n
           /\ \A i \in 1..n : IF SrsPrefix[i] = "." THEN body[i] # "\n"
                                ELSE body[i] = SrsPrefix[i]
           /\ \A i \in 1..Len(group) : IsDigit(group[i])
        THEN Some(group)
        ELSE None

parse_srs(srs) ==
    LET match == RE_SRS_match(srs)
    IN  IF match # None THEN Some(ParseNatural(match[1])) ELSE None

pack_srs(srid) == SrsPrefix \o FormatDecimal(srid)

\* srsName attribute of the described coverage envelope: the canonical EPSG
\* URI of a code, or some other notation of the same code
SrsNames ==
    {pack_srs(32633),
     pack_srs(3035),
     <<"u", "r", "n", ":", "o", "g", "c", ":", "d", "e", "f", ":", "c",
       "r", "s", ":", "E", "P", "S", "G", ":", ":", "3", "2", "6", "3",
       "3">>}

\* raster content a getCoverage response can hold: geotransform and pixel size
Rasters == { [trn |-> <<100, 2, 0, 500, 0, -2>>, size_x |-> 3, size_y |-> 2],
             [trn |-> <<40, 1, 1, 90, 1, -1>>, size_x |-> 2, size_y |-> 2] }

\* a response body that is no raster: gdal.Open fails on it
NotARaster == [trn |-> <<>>, size_x |-> 0, size_y |-> 0]

Payloads == Rasters \cup {NotARaster}

\* faults of a query: protocol fault, HTTP error, connection failure
QueryFaults == {"OWSException", "HTTPError", "URLError"}

\* ------------------------------------------------------------- wcs_client

NoOptions == [format |-> None, interpolation |-> None, geotiff |-> None,
              subsetting_srid |-> None, subset |-> None, scale |-> None,
              output_srid |-> None, size |-> None]

\* GetCoverageArgs with the output CRS defaulting to the subsetting CRS
GetCoverageArgs_subsettingAsOutput(opts, out_srid) ==
    [format        |-> opts.format,
     subset        |-> opts.subset,
     subsettingCrs |-> IF opts.subsetting_srid # None
                       THEN Some(pack_srs(opts.subsetting_srid[1])) ELSE None,
     outputCrs     |-> IF out_srid # None THEN Some(pack_srs(out_srid[1]))
                       ELSE IF opts.subsetting_srid # None
                       THEN Some(pack_srs(opts.subsetting_srid[1])) ELSE None,
     scaleFactor   |-> IF opts.scale # None /\ opts.scale[1] # 0 THEN opts.scale ELSE None,
     scaleSize     |-> opts.size,
     interpolation |-> opts.interpolation,
     geotiff       |-> opts.geotiff]

\* the KVP terms get_coverage builds from its keyword arguments
GetCoverageArgs(opts, out_srid) ==
    [format        |-> opts.format,
     subset        |-> opts.subset,
     subsettingCrs |-> IF opts.subsetting_srid # None
                       THEN Some(pack_srs(opts.subsetting_srid[1])) ELSE None,
     outputCrs     |-> IF out_srid # None THEN Some(pack_srs(out_srid[1])) ELSE None,
     scaleFactor   |-> IF opts.scale # None /\ opts.scale[1] # 0 THEN opts.scale ELSE None,
     scaleSize     |-> opts.size,
     interpolation |-> opts.interpolation,
     geotiff       |-> opts.geotiff]

NoArgs == GetCoverageArgs(NoOptions, None)

DescribeCoverageRequest(i, id) ==
    [request |-> "describeCoverage", coverageId |-> id, idx |-> i,
     options |-> NoOptions, args |-> NoArgs]

GetCoverageRequest(i, id, opts, out_srid) ==
    [request |-> "getCoverage", coverageId |-> id, idx |-> i,
     options |-> opts, args |-> GetCoverageArgs(opts, out_srid)]

\* ------------------------------------------------------ download_coverages

base_options(interp) ==
    [NoOptions EXCEPT
        !.format = Some("image/tiff"),
        !.interpolation = Some(interp),
        !.geotiff = Some([compression |-> "None", tiling |-> "true",
                          tilewidth |-> 256, tileheight |-> 256])]

\* master_options with the AOI's y bounds in the order (top, bottom)
master_options_swapped(interp, aoi, scaling) ==
    [base_options(interp) EXCEPT
        !.subsetting_srid = Some(SRID_WGS84),
        !.subset = Some([x |-> <<aoi.left, aoi.right>>,
                         y |-> <<aoi.top, aoi.bottom>>]),
        !.scale = Some(scaling)]

master_options(interp, aoi, scaling) ==
    [base_options(interp) EXCEPT
        !.subsetting_srid = Some(SRID_WGS84),
        !.subset = Some([x |-> <<aoi.left, aoi.right>>,
                         y |-> <<aoi.bottom, aoi.top>>]),
        !.scale = Some(scaling)]

Filename(coverage) == <<OutputDir, coverage, ".tif">>

FileNames == {Filename(c) : c \in CovIds}

Absent == [state |-> "absent", data |-> None]
Old == [state |-> "old", data |-> None]

\* get_size_and_subset with the y interval left in pixel order (upper, lower)
get_size_and_subset_unordered(dataset) ==
    LET trn == dataset.trn
        tx(x, y) == trn[1] + trn[2] * x + trn[3] * y
        ty(x, y) == trn[4] + trn[5] * x + trn[6] * y
    IN  [size   |-> [x |-> dataset.size_x, y |-> dataset.size_y],
         subset |-> [x |-> <<tx(0, 0), tx(dataset.size_x, dataset.size_y)>>,
                     y |-> <<ty(0, 0), ty(dataset.size_x, dataset.size_y)>>]]

get_size_and_subset(dataset) ==
    LET trn == dataset.trn
        tx(x, y) == trn[1] + trn[2] * x + trn[3] * y
        ty(x, y) == trn[4] + trn[5] * x + trn[6] * y
    IN  [size   |-> [x |-> dataset.size_x, y |-> dataset.size_y],
         subset |-> [x |-> <<tx(0, 0), tx(dataset.size_x, dataset.size_y)>>,
                     y |-> <<ty(dataset.size_x, dataset.size_y), ty(0, 0)>>]]

slave_options(interp, srid, grid) ==
    [base_options(interp) EXCEPT
        !.subsetting_srid = srid,
        !.output_srid = srid,
        !.size = Some(grid.size),
        !.subset = Some(grid.subset)]

\* where the for loop goes for index i: the master's SRID query, a slave's
\* get_coverage call, or the statement after the loop
LoopPc(i, covs) ==
    IF i >= Len(covs) THEN "check"
    ELSE IF i = 0 THEN "describe" ELSE "get_coverage"

\* where the loop body goes after the download of coverage i
AfterDownload(i, covs) ==
    IF i = 0 THEN "grid" ELSE LoopPc(i + 1, covs)

\* the new file name put in front of the list
ImagesAppend_prepend(imgs, filename) == <<filename>> \o imgs

\* images.append(filename)
ImagesAppend(imgs, filename) == Append(imgs, filename)

Raise(e) == pc' = "raised" /\ exc' = e

UnchangedArguments ==
    /\ UNCHANGED <<coverages, selection, scaling_factor, interp_method>>
    /\ UNCHANGED otherVars

\* the state of the variables a call does not use
QueryIdle == response = None

StatIdle ==
    /\ img_class = None
    /\ img_class_ref = None
    /\ n_class = 0
    /\ ref_classes = <<>>
    /\ fout = ""
    /\ tile_size = None
    /\ counts = None
    /\ tile = 0
    /\ reads = <<>>
    /\ out = None

RasterizeIdle ==
    /\ source = None
    /\ layer_name = ""
    /\ template = None
    /\ classes = <<>>
    /\ attrib = ""
    /\ output = None
    /\ bbox = None
    /\ filter_rect = None
    /\ cursor = 0
    /\ fetched = <<>>
    /\ virt_layer = <<>>

PixelIdle ==
    /\ data_items = None
    /\ latitude = 0
    /\ longitude = 0
    /\ item = 0
    /\ pixel_values = <<>>

PipelineIdle == events = <<>>

SrsIdle ==
    /\ srid_arg = 0
    /\ srs_arg = <<>>

ProcessorIdle ==
    /\ jobs = <<>>
    /\ job_id = <<>>
    /\ job = <<>>

ViewIdle ==
    /\ time_series = <<>>
    /\ links = <<>>
    /\ purged = {}
    /\ request = <<>>
    /\ reply = <<>>

LaterIdle == SrsIdle /\ ProcessorIdle /\ ViewIdle

MoreIdle == PixelIdle /\ PipelineIdle /\ LaterIdle

OtherIdle == QueryIdle /\ StatIdle /\ RasterizeIdle /\ MoreIdle

Init ==
    /\ pc = "makedirs"
    /\ coverages \in CovLists
    /\ selection \in AOIs
    /\ scaling_factor \in ScalingFactors
    /\ interp_method \in InterpMethods
    /\ dir \in {"absent", "exists"}
    /\ fs \in [FileNames -> {Absent, Old}]
    /\ (dir = "absent" => fs = [f \in FileNames |-> Absent])
    /\ idx = 0
    /\ options = master_options(interp_method, selection, scaling_factor)
    /\ output_srid = None
    /\ gc_output_srid = None
    /\ caller = "download_coverages"
    /\ images = <<>>
    /\ requests = <<>>
    /\ streams = {}
    /\ files = {}
    /\ exc = None
    /\ result = None
    /\ OtherIdle

\* MakeDirs with the empty-list check made before the directory is created
MakeDirs_checkFirst ==
    /\ pc = "makedirs"
    /\ IF coverages = <<>>
       THEN /\ Raise(Some("EmptySITSError"))
            /\ UNCHANGED dir
       ELSE IF dir = "exists"
       THEN /\ Raise(Some("OSError"))
            /\ UNCHANGED dir
       ELSE /\ dir' = "created"
            /\ pc' = LoopPc(0, coverages)
            /\ UNCHANGED exc
    /\ UnchangedArguments
    /\ UNCHANGED <<fs, idx, options, output_srid, gc_output_srid, caller, images,
                   requests, streams, files, result>>

\* MakeDirs that accepts an existing directory
MakeDirs_existOk ==
    /\ pc = "makedirs"
    /\ dir' = IF dir = "exists" THEN "exists" ELSE "created"
    /\ pc' = LoopPc(0, coverages)
    /\ UnchangedArguments
    /\ UNCHANGED <<fs, idx, options, output_srid, gc_output_srid, caller, images,
                   requests, streams, files, exc, result>>

\* makedirs(output_dir); images = []; client = WCS20Client(url)
MakeDirs ==
    /\ pc = "makedirs"
    /\ IF dir = "exists"
       THEN /\ Raise(Some("OSError"))
            /\ UNCHANGED dir
       ELSE /\ dir' = "created"
            /\ pc' = LoopPc(0, coverages)
            /\ UNCHANGED exc
    /\ UNCHANGED otherVars
    /\ UNCHANGED <<coverages, selection, scaling_factor, interp_method, fs, idx,
                   options, output_srid, gc_output_srid, caller, images,
                   requests, streams, files, result>>

\* the coverage of the current loop iteration and its file
Coverage == coverages[idx + 1]

\* WCS20Client._query('request=describeCoverage', ...) inside _query_xml:
\* urlopen either faults or hands out the response stream
DescribeQuery ==
    /\ pc = "describe"
    /\ requests' = Append(requests, DescribeCoverageRequest(idx, Coverage))
    /\ \/ /\ \E f \in QueryFaults : Raise(Some(f))
          /\ UNCHANGED streams
       \/ /\ streams' = streams \cup {Len(requests')}
          /\ pc' = "parse"
          /\ UNCHANGED exc
    /\ UNCHANGED otherVars
    /\ UNCHANGED <<coverages, selection, scaling_factor, interp_method, dir, fs,
                   idx, options, output_srid, gc_output_srid, caller, images,
                   files, result>>

\* _query_xml parses the response under closing(), then
\* WCS20CoverageDescription.srid reads the envelope's srsName; the value goes
\* to download_coverages (master SRID) or to get_coverage (its output SRID)
DescribeParse ==
    /\ pc = "parse"
    /\ streams' = streams \ {Len(requests)}
    /\ caller' = "download_coverages"
    /\ \/ /\ \E e \in {"XMLSyntaxError", "TypeError"} : Raise(Some(e))
          /\ UNCHANGED <<options, output_srid, gc_output_srid>>
       \/ \E srs \in SrsNames :
            /\ UNCHANGED exc
            /\ IF caller = "download_coverages"
               THEN /\ output_srid' = parse_srs(srs)
                    /\ options' = [options EXCEPT !.output_srid = parse_srs(srs)]
                    /\ pc' = "get_coverage"
                    /\ UNCHANGED gc_output_srid
               ELSE /\ gc_output_srid' = parse_srs(srs)
                    /\ pc' = "query"
                    /\ UNCHANGED <<options, output_srid>>
    /\ UNCHANGED otherVars
    /\ UNCHANGED <<coverages, selection, scaling_factor, interp_method, dir, fs,
                   idx, images, requests, files, result>>

\* NeedsDescribe without the test of the subsetting SRID
NeedsDescribe_always(opts) == opts.output_srid = None

\* get_coverage needs the coverage description when it is given a subsetting
\* SRID and no output SRID
NeedsDescribe(opts) == opts.subsetting_srid # None /\ opts.output_srid = None

\* client.get_coverage(coverage, **options) up to the CRS extension
GetCoverage ==
    /\ pc = "get_coverage"
    /\ gc_output_srid' = options.output_srid
    /\ IF NeedsDescribe(options)
       THEN pc' = "describe" /\ caller' = "get_coverage"
       ELSE pc' = "query" /\ UNCHANGED caller
    /\ UNCHANGED otherVars
    /\ UNCHANGED <<coverages, selection, scaling_factor, interp_method, dir, fs,
                   idx, options, output_srid, images, requests, streams, files,
                   exc, result>>

\* Query inside a loop body that skips a coverage whose request faults
Query_skipFaulty ==
    /\ pc = "query"
    /\ requests' = Append(requests,
                       GetCoverageRequest(idx, Coverage, options, gc_output_srid))
    /\ \/ /\ pc' = LoopPc(idx + 1, coverages)
          /\ idx' = idx + 1
          /\ UNCHANGED streams
       \/ /\ streams' = streams \cup {Len(requests')}
          /\ pc' = "open"
          /\ UNCHANGED idx
    /\ UnchangedArguments
    /\ UNCHANGED <<dir, fs, options, output_srid, gc_output_srid, caller, images,
                   files, exc, result>>

\* the end of get_coverage: self._query('request=getCoverage', ...)
Query ==
    /\ pc = "query"
    /\ requests' = Append(requests,
                       GetCoverageRequest(idx, Coverage, options, gc_output_srid))
    /\ \/ /\ \E f \in QueryFaults : Raise(Some(f))
          /\ UNCHANGED streams
       \/ /\ streams' = streams \cup {Len(requests')}
          /\ pc' = "open"
          /\ UNCHANGED exc
    /\ UNCHANGED otherVars
    /\ UNCHANGED <<coverages, selection, scaling_factor, interp_method, dir, fs,
                   idx, options, output_srid, gc_output_srid, caller, images,
                   files, result>>

\* OpenFile without closing(): the response stream stays open when the
\* output file cannot be opened
OpenFile_noClosing ==
    /\ pc = "open"
    /\ \/ /\ Raise(Some("IOError"))
          /\ UNCHANGED <<fs, files>>
       \/ /\ fs' = [fs EXCEPT ![Filename(Coverage)] = [state |-> "empty", data |-> None]]
          /\ files' = files \cup {Filename(Coverage)}
          /\ pc' = "copy"
          /\ UNCHANGED exc
    /\ UnchangedArguments
    /\ UNCHANGED <<dir, idx, options, output_srid, gc_output_srid, caller, images,
                   requests, streams, result>>

\* with closing(fsrc): with file(filename, "wb") as fdst
OpenFile ==
    /\ pc = "open"
    /\ \/ /\ Raise(Some("IOError"))
          /\ streams' = streams \ {Len(requests)}
          /\ UNCHANGED <<fs, files>>
       \/ /\ fs' = [fs EXCEPT ![Filename(Coverage)] = [state |-> "empty", data |-> None]]
          /\ files' = files \cup {Filename(Coverage)}
          /\ pc' = "copy"
          /\ UNCHANGED <<streams, exc>>
    /\ UNCHANGED otherVars
    /\ UNCHANGED <<coverages, selection, scaling_factor, interp_method, dir, idx,
                   options, output_srid, gc_output_srid, caller, images,
                   requests, result>>

\* copyfileobj(fsrc, fdst, CHUNK_SIZE), the exit of both with blocks and the
\* append of the file name to images
CopyFileObj ==
    /\ pc = "copy"
    /\ files' = files \ {Filename(Coverage)}
    /\ streams' = streams \ {Len(requests)}
    /\ \/ /\ Raise(Some("IOError"))
          /\ fs' = [fs EXCEPT ![Filename(Coverage)] = [state |-> "partial", data |-> None]]
          /\ UNCHANGED <<images, idx>>
       \/ \E body \in Payloads :
            /\ fs' = [fs EXCEPT ![Filename(Coverage)] =
                                    [state |-> "complete", data |-> Some(body)]]
            /\ images' = ImagesAppend(images, Filename(Coverage))
            /\ pc' = AfterDownload(idx, coverages)
            /\ idx' = IF idx = 0 THEN idx ELSE idx + 1
            /\ UNCHANGED exc
    /\ UNCHANGED otherVars
    /\ UNCHANGED <<coverages, selection, scaling_factor, interp_method, dir,
                   options, output_srid, gc_output_srid, caller, requests, result>>

\* the loop body without the block that sets the options of the slave images
SetSlaveOptions_skipped ==
    /\ pc = "grid"
    /\ idx' = idx + 1
    /\ pc' = LoopPc(idx + 1, coverages)
    /\ UnchangedArguments
    /\ UNCHANGED <<dir, fs, options, output_srid, gc_output_srid, caller, images,
                   requests, streams, files, exc, result>>

\* if idx == 0: the options of the slave images, from the master file
SetSlaveOptions ==
    /\ pc = "grid"
    /\ LET dataset == fs[Filename(Coverage)].data[1]
       IN  IF dataset = NotARaster
           THEN /\ Raise(Some("RuntimeError"))
                /\ UNCHANGED <<options, idx>>
           ELSE /\ options' = slave_options(interp_method, output_srid,
                                            get_size_and_subset(dataset))
                /\ idx' = idx + 1
                /\ pc' = LoopPc(idx + 1, coverages)
                /\ UNCHANGED exc
    /\ UNCHANGED otherVars
    /\ UNCHANGED <<coverages, selection, scaling_factor, interp_method, dir, fs,
                   output_srid, gc_output_srid, caller, images, requests,
                   streams, files, result>>

\* Return without the check of the empty list
Return_empty ==
    /\ pc = "check"
    /\ pc' = "returned"
    /\ result' = Some(images)
    /\ UnchangedArguments
    /\ UNCHANGED <<dir, fs, idx, options, output_srid, gc_output_srid, caller,
                   images, requests, streams, files, exc>>

\* after the loop: if not images: raise EmptySITSError(...); return images
Return ==
    /\ pc = "check"
    /\ IF images = <<>>
       THEN Raise(Some("EmptySITSError")) /\ UNCHANGED result
       ELSE pc' = "returned" /\ result' = Some(images) /\ UNCHANGED exc
    /\ UNCHANGED otherVars
    /\ UNCHANGED <<coverages, selection, scaling_factor, interp_method, dir, fs,
                   idx, options, output_srid, gc_output_srid, caller, images,
                   requests, streams, files>>

Next ==
    \/ MakeDirs
    \/ DescribeQuery
    \/ DescribeParse
    \/ GetCoverage
    \/ Query
    \/ OpenFile
    \/ CopyFileObj
    \/ SetSlaveOptions
    \/ Return

Spec == Init /\ [][Next]_vars

\* ------------------------------------- WCS20Client.get_coverage on its own

\* keyword arguments a caller can give to get_coverage
GetCoverageKwargs ==
    {[base_options("bilinear") EXCEPT
          !.subsetting_srid = s, !.output_srid = o, !.scale = sc, !.size = sz] :
       s \in {None, Some(SRID_WGS84), Some(32633)},
       o \in {None, Some(SRID_WGS84), Some(3035)},
       sc \in {None, Some(0), Some(2)},
       sz \in {None, Some([x |-> 3, y |-> 2])}}

\* one call client.get_coverage(identifier, **kwargs) on a new client
InitGetCoverage ==
    /\ pc = "get_coverage"
    /\ coverages \in {<<c>> : c \in CovIds}
    /\ selection = [left |-> 10, right |-> 11, bottom |-> 45, top |-> 46]
    /\ scaling_factor = 1
    /\ interp_method = "bilinear"
    /\ dir = "created"
    /\ fs = [f \in FileNames |-> Absent]
    /\ idx = 0
    /\ options \in GetCoverageKwargs
    /\ output_srid = None
    /\ gc_output_srid = None
    /\ caller = "get_coverage"
    /\ images = <<>>
    /\ requests = <<>>
    /\ streams = {}
    /\ files = {}
    /\ exc = None
    /\ result = None
    /\ OtherIdle

\* the call ends when _query has returned the response stream (pc = "open")
\* or an exception has left it
NextGetCoverage ==
    \/ GetCoverage
    \/ DescribeQuery
    \/ DescribeParse
    \/ Query

SpecGetCoverage == InitGetCoverage /\ [][NextGetCoverage]_vars

\* ----------------------------------------- WCS20Client._query on its own

\* Content-Type headers of an HTTP error response
ContentTypes == {"text/xml", "application/xml", "text/html"}

ExceptionCodes == {"NoSuchCoverage", "InvalidParameterValue"}

\* the ows:Exception element of an exception report: the exceptionCode
\* attribute, the locator attribute (absent, empty or given) and the text of
\* the ows:ExceptionText child (which a report may leave out)
ExceptionElements ==
    [exceptionCode : ExceptionCodes,
     locator : {None, Some(""), Some("coverageId")},
     text : {None, Some("No such coverage.")}]

\* bodies of an HTTP error response: not well-formed, XML without an
\* ows:Exception element, or a report with one
Bodies ==
    {[wellformed |-> FALSE, exception |-> None],
     [wellformed |-> TRUE, exception |-> None]}
    \cup {[wellformed |-> TRUE, exception |-> Some(e)] : e \in ExceptionElements}

NoBody == [wellformed |-> FALSE, exception |-> None]

\* what urlopen meets: a response, a connection failure, an HTTP error
Responses ==
    {[kind |-> "ok", ctype |-> "image/tiff", body |-> NoBody],
     [kind |-> "url-error", ctype |-> "", body |-> NoBody]}
    \cup [kind : {"http-error"}, ctype : ContentTypes, body : Bodies]

\* OWSException.__init__: the message "%s%s: %s" % (code, locator, text)
\* with the locator in parentheses, or nothing for an empty locator
OWSException(code, locator, text) ==
    [type |-> "OWSException",
     message |-> <<code, IF locator = "" THEN <<>> ELSE <<"(", locator, ")">>,
                   ": ", text>>,
     response |-> None]

\* the HTTPError raised by urlopen, which carries the error response
HTTPError(resp) == [type |-> "HTTPError", message |-> <<>>, response |-> Some(resp)]

OtherError(type) == [type |-> type, message |-> <<>>, response |-> None]

\* the except block of parse_ows20_exception: the exception that leaves it
parse_ows20_exception(resp) ==
    IF resp.ctype = "text/xml"
    THEN IF ~resp.body.wellformed
         THEN OtherError("XMLSyntaxError")
         ELSE IF resp.body.exception = None
         THEN HTTPError(resp)
         ELSE LET elm == resp.body.exception[1]
                  locator == IF elm.locator = None THEN "" ELSE elm.locator[1]
              IN  IF elm.text = None
                  THEN OtherError("AttributeError")
                  ELSE OWSException(elm.exceptionCode, locator, elm.text[1])
    ELSE HTTPError(resp)

\* the state of the variables of download_coverages in the other calls
DownloadIdle ==
    /\ coverages = <<>>
    /\ selection = [left |-> 10, right |-> 11, bottom |-> 45, top |-> 46]
    /\ scaling_factor = 1
    /\ interp_method = "nearest-neighbour"
    /\ dir = "absent"
    /\ fs = [f \in FileNames |-> Absent]
    /\ idx = 0
    /\ options = NoOptions
    /\ output_srid = None
    /\ gc_output_srid = None
    /\ caller = "download_coverages"
    /\ images = <<>>
    /\ requests = <<>>
    /\ streams = {}
    /\ files = {}

\* one call of client._query(...)
InitQuery ==
    /\ pc = "urlopen"
    /\ exc = None
    /\ result = None
    /\ response \in {Some(r) : r \in Responses}
    /\ DownloadIdle
    /\ MoreIdle
    /\ StatIdle
    /\ RasterizeIdle

\* return urlopen(Request(url, headers=self.headers)) under the decorator:
\* a response is returned, any error but an HTTPError passes through
QueryUrlopen ==
    /\ pc = "urlopen"
    /\ IF response[1].kind = "ok"
       THEN pc' = "returned" /\ result' = response /\ UNCHANGED exc
       ELSE IF response[1].kind = "url-error"
       THEN Raise(Some(OtherError("URLError"))) /\ UNCHANGED result
       ELSE pc' = "except" /\ UNCHANGED <<exc, result>>
    /\ UNCHANGED <<downloadVars, otherVars>>

\* except HTTPError as exception: ...
QueryExcept ==
    /\ pc = "except"
    /\ Raise(Some(parse_ows20_exception(response[1])))
    /\ UNCHANGED <<result, downloadVars, otherVars>>

NextQuery ==
    \/ QueryUrlopen
    \/ QueryExcept

SpecQuery == InitQuery /\ [][NextQuery]_vars

\* ------------------------------------------------- write_class_statistics

DataTypes == {"GDT_Byte", "GDT_UInt16"}

\* the value of the first band of a dataset at column x, row y
Pixel(ds, x, y) ==
    CASE ds.pattern = "ones" -> 1
      [] ds.pattern = "threes" -> 3
      [] ds.pattern = "ramp" -> (x + 2 * y) % 5
      [] ds.pattern = "cross" -> (2 * x + y + 1) % 5

\* what gdal.Open(img_class) gives
ClassImages ==
    [RasterXSize : 1..MaxSize, RasterYSize : 1..MaxSize, RasterCount : {1, 3},
     DataType : DataTypes, pattern : {"ones", "ramp"}]

\* what gdal.Open(img_class_ref) gives, of the same size or a larger one
ReferenceImages(ds_class) ==
    [RasterXSize : {ds_class.RasterXSize, ds_class.RasterXSize + 1},
     RasterYSize : {ds_class.RasterYSize, ds_class.RasterYSize + 1},
     RasterCount : {1, 3}, DataType : DataTypes, pattern : {"threes", "cross"}]

\* reference class tables (as in damats.util.clc.classes), one with a gap
ReferenceClassTables ==
    {<<[index |-> 1, title |-> "Continuous urban fabric", attrib |-> [code_12 |-> "111"]],
       [index |-> 2, title |-> "Discontinuous urban fabric", attrib |-> [code_12 |-> "112"]]>>,
     <<[index |-> 1, title |-> "Continuous urban fabric", attrib |-> [code_12 |-> "111"]],
       [index |-> 3, title |-> "Industrial or commercial units", attrib |-> [code_12 |-> "121"]]>>}

\* max(c['index'] for c in ref_classes)
MaxIndex(table) ==
    CHOOSE m \in {table[k].index : k \in DOMAIN table} :
        \A k \in DOMAIN table : table[k].index <= m

Min(a, b) == IF a < b THEN a ELSE b

RECURSIVE SumOver(_, _)
SumOver(f, S) ==
    IF S = {} THEN 0
    ELSE LET x == CHOOSE x \in S : TRUE IN f[x] + SumOver(f, S \ {x})

\* numpy: matrices are indexed from 0
zeros(dims) == [i \in 0..(dims[1] - 1) |-> [j \in 0..(dims[2] - 1) |-> 0]]

shape(m) == <<Cardinality(DOMAIN m), Cardinality(DOMAIN m[0])>>

sum(m) == SumOver([i \in DOMAIN m |-> SumOver(m[i], DOMAIN m[i])], DOMAIN m)

sum_axis0(m) == [j \in DOMAIN m[0] |-> SumOver([i \in DOMAIN m |-> m[i][j]], DOMAIN m)]

sum_axis1(m) == [i \in DOMAIN m |-> SumOver(m[i], DOMAIN m[i])]

Transpose(m) == [j \in DOMAIN m[0] |-> [i \in DOMAIN m |-> m[i][j]]]

MatrixAdd(a, b) == [i \in DOMAIN a |-> [j \in DOMAIN a[i] |-> a[i][j] + b[i][j]]]

\* the checks of calculate_2d_class_histogram, in their order: the message
\* of the ValueError raised, if any
ImageParametersError_noDataType(ds_class, ds_class_ref) ==
    IF \/ ds_class.RasterXSize # ds_class_ref.RasterXSize
       \/ ds_class.RasterYSize # ds_class_ref.RasterYSize
    THEN Some("Image size mismatch!")
    ELSE IF ds_class.RasterCount # 1 \/ ds_class_ref.RasterCount # 1
    THEN Some("Band count mismatch!")
    ELSE None

ImageParametersError(ds_class, ds_class_ref) ==
    IF \/ ds_class.RasterXSize # ds_class_ref.RasterXSize
       \/ ds_class.RasterYSize # ds_class_ref.RasterYSize
    THEN Some("Image size mismatch!")
    ELSE IF ds_class.RasterCount # 1 \/ ds_class_ref.RasterCount # 1
    THEN Some("Band count mismatch!")
    ELSE IF ds_class.DataType # "GDT_Byte" \/ ds_class_ref.DataType # "GDT_Byte"
    THEN Some("Unexpected image datatype!")
    ELSE None

\* zeros((n_class + 1, n_class_ref + 1), 'int64')
HistogramShape_square(ncls, ncls_ref) == <<ncls_ref + 1, ncls_ref + 1>>

HistogramShape(ncls, ncls_ref) == <<ncls + 1, ncls_ref + 1>>

\* ravel_multi_index(..., mode='clip'): an index outside 0..n-1 is moved to
\* the nearest end
Clip_wrap(v, n) == v % n

Clip(v, n) == IF v < 0 THEN 0 ELSE IF v > n - 1 THEN n - 1 ELSE v

\* bincount_multivar((data1.ravel(), data2.ravel()), dims)
bincount_multivar(data1, data2, dims) ==
    [i \in 0..(dims[1] - 1) |-> [j \in 0..(dims[2] - 1) |->
        Cardinality({p \in DOMAIN data1 :
            Clip(data1[p], dims[1]) = i /\ Clip(data2[p], dims[2]) = j})]]

\* ntile = 1 + (size - 1)//tile_size
NTiles_floor(size, tsize) == size \div tsize

NTiles(size, tsize) == 1 + (size - 1) \div tsize

\* band.ReadAsArray(offset_x, offset_y, tsize_x, tsize_y)
ReadAsArray(ds, offset_x, offset_y, tsize_x, tsize_y) ==
    [p \in (offset_x..(offset_x + tsize_x - 1)) \X (offset_y..(offset_y + tsize_y - 1))
        |-> Pixel(ds, p[1], p[2])]

\* the first lines of _save_class_statistics: totals in row and column 0,
\* then the transposition
extended_counts(cnts) ==
    LET dims == shape(cnts)
        ext == [i \in 0..dims[1] |-> [j \in 0..dims[2] |->
                   IF i = 0 /\ j = 0 THEN sum(cnts)
                   ELSE IF i = 0 THEN sum_axis0(cnts)[j - 1]
                   ELSE IF j = 0 THEN sum_axis1(cnts)[i - 1]
                   ELSE cnts[i - 1][j - 1]]]
    IN  Transpose(ext)

\* "\t".join("%d" % v for v in row): the fields of one matrix row
Fields(row) == [k \in 1..Cardinality(DOMAIN row) |-> row[k - 1]]

\* the header row; every field is kept as a tuple of its pieces
Header_noOther(ncls) ==
    <<<<"">>, <<"Total">>>> \o [i \in 1..ncls |-> <<"Class #", i - 1>>]

Header(ncls) ==
    <<<<"">>, <<"Total">>>> \o [i \in 1..ncls |-> <<"Class #", i - 1>>]
        \o <<<<"Other">>>>

\* "%s %s\t" % (class_['attrib'].values()[0], class_['title'])
Label(class) ==
    <<class.attrib[CHOOSE k \in DOMAIN class.attrib : TRUE], " ", class.title>>

\* _save_class_statistics: the rows written, each a sequence of fields
save_class_statistics(cnts, table) ==
    LET ncls == shape(cnts)[1] - 1
        ext == extended_counts(cnts)
        last == Cardinality(DOMAIN ext) - 1
    IN  <<Header(ncls)>>
        \o <<<<<<"Pixel Count">>>> \o Fields(ext[0])>>
        \o [k \in 1..Len(table) |->
               <<Label(table[k])>> \o Fields(ext[table[k].index + 1])]
        \o <<<<<<"Other">>>> \o Fields(ext[last])>>

\* the output file before the call: a path names a file not opened yet, a
\* file object was opened by the caller
InitialOut(f) ==
    [state |-> IF f = "path" THEN "unopened" ELSE "open", rows |-> <<>>]

StatArguments == <<img_class, img_class_ref, n_class, ref_classes, fout, tile_size>>

\* one call of write_class_statistics(fout, img_class, img_class_ref,
\* n_class, ref_classes)
InitStatistics ==
    /\ pc = "histogram"
    /\ exc = None
    /\ result = None
    /\ img_class \in ClassImages
    /\ img_class_ref \in ReferenceImages(img_class)
    /\ n_class \in {1, 3}
    /\ ref_classes \in ReferenceClassTables
    /\ fout \in {"path", "file"}
    /\ tile_size \in [x : 1..MaxTile, y : 1..MaxTile]
    /\ counts = None
    /\ tile = 0
    /\ reads = <<>>
    /\ out = InitialOut(fout)
    /\ DownloadIdle
    /\ MoreIdle
    /\ QueryIdle
    /\ RasterizeIdle

\* calculate_2d_class_histogram up to the call of _get_raw_pixel_counts
OpenDatasets ==
    /\ pc = "histogram"
    /\ LET error == ImageParametersError(img_class, img_class_ref)
       IN  IF error # None
           THEN /\ Raise(Some([type |-> "ValueError", message |-> error[1]]))
                /\ UNCHANGED counts
           ELSE /\ pc' = "tiles"
                /\ counts' = zeros(HistogramShape(n_class, MaxIndex(ref_classes)))
                /\ UNCHANGED exc
    /\ UNCHANGED <<result, tile, reads, out, StatArguments, downloadVars, nonStatVars>>

\* one body of the loops of _get_raw_pixel_counts
ReadTile ==
    /\ pc = "tiles"
    /\ LET size_x == img_class.RasterXSize
           size_y == img_class.RasterYSize
           ntile_x == NTiles(size_x, tile_size.x)
           ntile_y == NTiles(size_y, tile_size.y)
           idx_x == tile % ntile_x
           idx_y == tile \div ntile_x
           offset_x == idx_x * tile_size.x
           offset_y == idx_y * tile_size.y
           tsize_x == Min(tile_size.x, size_x - offset_x)
           tsize_y == Min(tile_size.y, size_y - offset_y)
           data1 == ReadAsArray(img_class, offset_x, offset_y, tsize_x, tsize_y)
           data2 == ReadAsArray(img_class_ref, offset_x, offset_y, tsize_x, tsize_y)
       IN  /\ tile < ntile_x * ntile_y
           /\ counts' = MatrixAdd(counts, bincount_multivar(data1, data2, shape(counts)))
           /\ reads' = Append(reads, [offset_x |-> offset_x, offset_y |-> offset_y,
                                      tsize_x |-> tsize_x, tsize_y |-> tsize_y])
    /\ tile' = tile + 1
    /\ UNCHANGED <<pc, exc, result, out, StatArguments, downloadVars, nonStatVars>>

\* return counts: the histogram is back in write_class_statistics
ReturnCounts ==
    /\ pc = "tiles"
    /\ tile >= NTiles(img_class.RasterXSize, tile_size.x)
                 * NTiles(img_class.RasterYSize, tile_size.y)
    /\ pc' = "save"
    /\ UNCHANGED <<exc, result, counts, tile, reads, out, StatArguments,
                   downloadVars, nonStatVars>>

\* if isinstance(fout, basestring): with open(fout, "wb") as _fout: ...
SaveClassStatistics ==
    /\ pc = "save"
    /\ out' = [state |-> IF fout = "path" THEN "closed" ELSE "open",
               rows |-> save_class_statistics(counts, ref_classes)]
    /\ pc' = "returned"
    /\ UNCHANGED <<exc, result, counts, tile, reads, StatArguments,
                   downloadVars, nonStatVars>>

NextStatistics ==
    \/ OpenDatasets
    \/ ReadTile
    \/ ReturnCounts
    \/ SaveClassStatistics

SpecStatistics == InitStatistics /\ [][NextStatistics]_vars

\* -------------------------------------------------------- rasterize_shapes

COLOR_FIELD == "index"

Max(a, b) == IF a > b THEN a ELSE b

\* dict.get(key): None for a missing key
Get(d, key) == IF key \in DOMAIN d THEN Some(d[key]) ELSE None

\* template rasters: sizes and geotransforms (x00, dxx, dxy, y00, dyx, dyy)
Templates ==
    [RasterXSize : {10, 20}, RasterYSize : {10},
     GeoTransform : {<<100, 1, 0, 460, 0, -1>>, <<450, 1, 0, 460, 0, -1>>}]

\* layer.GetSpatialRef(): none, the template's own, or one with turned axes
SpatialRefs == {"none", "same", "turned"}

\* ct_.TransformPoint(x, y)[:2] from the template's projection
TransformPoint(target_sr, p) ==
    IF target_sr = "turned" THEN <<p[2], 1000 - p[1]>> ELSE p

\* geometries are axis-parallel rectangles
Rect(minx, miny, maxx, maxy) ==
    [minx |-> minx, miny |-> miny, maxx |-> maxx, maxy |-> maxy]

\* the features of the source layer, in reading order: geometry and the
\* value of the source attribute field (None where the field is unset)
FeaturePool ==
    <<[geometry |-> Rect(102, 452, 104, 454), field |-> Some("111")],
      [geometry |-> Rect(200, 450, 210, 455), field |-> Some("112")],
      [geometry |-> Rect(452, 452, 454, 454), field |-> Some("111")],
      [geometry |-> Rect(455, 455, 458, 458), field |-> Some("999")],
      [geometry |-> Rect(451, 456, 453, 459), field |-> None],
      [geometry |-> Rect(456, 451, 459, 453), field |-> Some("121")]>>

RECURSIVE Kept(_, _)
Kept(seq, keep) ==
    IF seq = <<>> THEN <<>>
    ELSE IF Len(seq) \in keep
    THEN Append(Kept(SubSeq(seq, 1, Len(seq) - 1), keep), seq[Len(seq)])
    ELSE Kept(SubSeq(seq, 1, Len(seq) - 1), keep)

FeatureLists == {Kept(FeaturePool, keep) : keep \in SUBSET (1..Len(FeaturePool))}

\* vector datasets: layer names, spatial reference and features of the layer
Sources ==
    [layers : {{"clc2012"}}, srs : SpatialRefs, features : FeatureLists]

\* class tables: the reference tables, one whose second class has no value
\* of the source attribute and one with two classes of the same value
RasterizeClassTables ==
    ReferenceClassTables \cup
    {<<[index |-> 1, title |-> "Continuous urban fabric", attrib |-> [code_12 |-> "111"]],
       [index |-> 2, title |-> "Discontinuous urban fabric", attrib |-> [code_06 |-> "112"]]>>,
     <<[index |-> 1, title |-> "Continuous urban fabric", attrib |-> [code_12 |-> "111"]],
       [index |-> 4, title |-> "Urban fabric", attrib |-> [code_12 |-> "111"]]>>}

\* points_to_extent
points_to_extent(outline) ==
    LET x == {outline[k][1] : k \in DOMAIN outline}
        y == {outline[k][2] : k \in DOMAIN outline}
        min(S) == CHOOSE m \in S : \A v \in S : m <= v
        max(S) == CHOOSE m \in S : \A v \in S : m >= v
    IN  <<min(x), min(y), max(x), max(y)>>

\* get_bbox(dataset, target_sr, expand_by) with expand_by given in tenths:
\* dx = 0.5*expand_by*(maxx - minx)
get_bbox(dataset, target_sr, expand_by_tenths) ==
    LET size_x == dataset.RasterXSize
        size_y == dataset.RasterYSize
        gt == dataset.GeoTransform
        pixels == <<<<0, 0>>, <<size_x, 0>>, <<size_x, size_y>>, <<0, size_y>>, <<0, 0>>>>
        corners == [k \in DOMAIN pixels |->
                       <<gt[1] + gt[2] * pixels[k][1] + gt[3] * pixels[k][2],
                         gt[4] + gt[5] * pixels[k][1] + gt[6] * pixels[k][2]>>]
        transformed == IF target_sr # "none"
                       THEN [k \in DOMAIN corners |-> TransformPoint(target_sr, corners[k])]
                       ELSE corners
        extent == points_to_extent(transformed)
        dx == (expand_by_tenths * (extent[3] - extent[1])) \div 20
        dy == (expand_by_tenths * (extent[4] - extent[2])) \div 20
    IN  IF expand_by_tenths # 0
        THEN <<extent[1] - dx, extent[2] - dy, extent[3] + dx, extent[4] + dy>>
        ELSE extent

\* fetch_features: minx, minx, maxx, maxy = bbox; the arguments given to
\* layer.SetSpatialFilterRect(minx, minx, maxx, maxy)
SpatialFilterRectArgs(box) ==
    LET maxy == box[4]
        maxx == box[3]
        minx == box[2]
    IN  <<minx, minx, maxx, maxy>>

\* OGR filters by the envelope of the rectangle's corners
FilterEnvelope(args) ==
    Rect(Min(args[1], args[3]), Min(args[2], args[4]),
         Max(args[1], args[3]), Max(args[2], args[4]))

Intersects(a, b) ==
    /\ a.minx <= b.maxx /\ b.minx <= a.maxx
    /\ a.miny <= b.maxy /\ b.miny <= a.maxy

\* class_lookup: attribute value -> class, for the classes that have a value
\* of the source attribute; of two classes with one value the later stays
class_lookup(table, src_attribute) ==
    LET with == {k \in DOMAIN table : Get(table[k].attrib, src_attribute) # None}
    IN  [v \in {table[k].attrib[src_attribute] : k \in with} |->
            table[CHOOSE k \in with :
                     /\ table[k].attrib[src_attribute] = v
                     /\ \A j \in with : table[j].attrib[src_attribute] = v => j <= k]]

\* the body of the loop of _copy_colored_features: the target layer after
\* one source feature
copy_colored_feature_keepUnmatched(target_layer, feature, lookup, dst_attribute) ==
    LET class == IF feature.field = None THEN None ELSE Get(lookup, feature.field[1])
    IN  IF class # None
        THEN Append(target_layer, [geometry |-> feature.geometry,
                                   fields |-> [f \in {dst_attribute} |-> class[1][f]]])
        ELSE Append(target_layer, [geometry |-> feature.geometry,
                                   fields |-> [f \in {dst_attribute} |-> 0]])

copy_colored_feature(target_layer, feature, lookup, dst_attribute) ==
    LET class == IF feature.field = None THEN None ELSE Get(lookup, feature.field[1])
    IN  IF class # None
        THEN Append(target_layer, [geometry |-> feature.geometry,
                                   fields |-> [f \in {dst_attribute} |-> class[1][f]]])
        ELSE target_layer

RasterizeArguments == <<source, layer_name, template, classes, attrib>>

NoFile == [state |-> "absent", burnt |-> <<>>]

OldFile == [state |-> "old", burnt |-> <<>>]

\* one call of rasterize_shapes(template, output, source, layer_name,
\* classes, attrib)
InitRasterize ==
    /\ pc = "get_layer"
    /\ exc = None
    /\ result = None
    /\ source \in Sources
    /\ layer_name \in {"clc2012", "clc2006"}
    /\ template \in Templates
    /\ classes \in RasterizeClassTables
    /\ attrib = "code_12"
    /\ output \in {NoFile, OldFile}
    /\ bbox = None
    /\ filter_rect = None
    /\ cursor = 0
    /\ fetched = <<>>
    /\ virt_layer = <<>>
    /\ DownloadIdle
    /\ MoreIdle
    /\ QueryIdle
    /\ StatIdle

\* ds_source = ogr.Open(source); layer = get_layer(ds_source, layer_name)
GetLayer_unchecked ==
    /\ pc = "get_layer"
    /\ pc' = "get_bbox"
    /\ UNCHANGED <<exc, result, RasterizeArguments, output, bbox, filter_rect, cursor,
                   fetched, virt_layer, downloadVars, nonRasterizeVars>>

GetLayer ==
    /\ pc = "get_layer"
    /\ IF layer_name \in source.layers
       THEN pc' = "get_bbox" /\ UNCHANGED exc
       ELSE Raise(Some([type |-> "ValueError", message |-> "Invalid layer name."]))
    /\ UNCHANGED <<result, RasterizeArguments, output, bbox, filter_rect, cursor,
                   fetched, virt_layer, downloadVars, nonRasterizeVars>>

\* ds_template = gdal.Open(template); bbox = get_bbox(ds_template,
\* layer.GetSpatialRef(), 0.2); the in-memory layer is created
GetBBox ==
    /\ pc = "get_bbox"
    /\ bbox' = Some(get_bbox(template, source.srs, 2))
    /\ pc' = "fetch_features"
    /\ UNCHANGED <<exc, result, RasterizeArguments, output, filter_rect, cursor,
                   fetched, virt_layer, downloadVars, nonRasterizeVars>>

\* the start of the generator fetch_features(layer, bbox=bbox)
SetSpatialFilterRect ==
    /\ pc = "fetch_features"
    /\ filter_rect' = Some(SpatialFilterRectArgs(bbox[1]))
    /\ cursor' = 0
    /\ pc' = "features"
    /\ UNCHANGED <<exc, result, RasterizeArguments, output, bbox, fetched,
                   virt_layer, downloadVars, nonRasterizeVars>>

\* the reading passes one feature of the layer: outside the filter it is
\* skipped, inside it is yielded and goes through the loop body of
\* _copy_colored_features
CopyColoredFeature ==
    /\ pc = "features"
    /\ cursor < Len(source.features)
    /\ LET feature == source.features[cursor + 1]
       IN  IF Intersects(feature.geometry, FilterEnvelope(filter_rect[1]))
           THEN /\ fetched' = Append(fetched, feature)
                /\ virt_layer' = copy_colored_feature(virt_layer, feature,
                                     class_lookup(classes, attrib), COLOR_FIELD)
           ELSE UNCHANGED <<fetched, virt_layer>>
    /\ cursor' = cursor + 1
    /\ UNCHANGED <<pc, exc, result, RasterizeArguments, output, bbox, filter_rect,
                   downloadVars, nonRasterizeVars>>

\* GetNextFeature gives no feature: _copy_colored_features returns
EndOfFeatures ==
    /\ pc = "features"
    /\ cursor = Len(source.features)
    /\ pc' = "rasterize"
    /\ UNCHANGED <<exc, result, RasterizeArguments, output, bbox, filter_rect,
                   cursor, fetched, virt_layer, downloadVars, nonRasterizeVars>>

\* if isfile(output): remove(output); the target is created on the
\* template's grid and the in-memory layer is burnt into it
RasterizeLayer ==
    /\ pc = "rasterize"
    /\ output' = [state |-> "new", burnt |-> virt_layer]
    /\ pc' = "returned"
    /\ UNCHANGED <<exc, result, RasterizeArguments, bbox, filter_rect, cursor,
                   fetched, virt_layer, downloadVars, nonRasterizeVars>>

NextRasterize ==
    \/ GetLayer
    \/ GetBBox
    \/ SetSpatialFilterRect
    \/ CopyColoredFeature
    \/ EndOfFeatures
    \/ RasterizeLayer

SpecRasterize == InitRasterize /\ [][NextRasterize]_vars

\* ---------------------------------------------------- GetPixelValue.execute

EarlyIdle == DownloadIdle /\ QueryIdle /\ StatIdle /\ RasterizeIdle

\* floor(a/b) for integers a and b # 0
FloorDiv(a, b) == IF b > 0 THEN a \div b ELSE (0 - a) \div (0 - b)

\* the images of data items: size, band count, geotransform (x00, dxu, dxv,
\* y00, dyu, dyv) and projection
PixelDatasets ==
    {[RasterXSize |-> 3, RasterYSize |-> 2, RasterCount |-> 1,
      GeoTransform |-> <<10, 2, 0, 20, 0, -2>>, Projection |-> "EPSG:4326"],
     [RasterXSize |-> 2, RasterYSize |-> 3, RasterCount |-> 2,
      GeoTransform |-> <<100, 10, 0, 200, 0, -10>>, Projection |-> "scaled"]}

\* ct_.TransformPoint(longitude, latitude)[:2] from WGS84 to the image's
\* projection
ToProjection(projection, lon, lat) ==
    IF projection = "EPSG:4326" THEN <<lon, lat>> ELSE <<10 * lon, 10 * lat>>

\* the pixel coordinates (u, v) of a location: invert_matrix_2x2 and floor
PixelCoordinates(dataset, lat, lon) ==
    LET gt == dataset.GeoTransform
        xy == ToProjection(dataset.Projection, lon, lat)
        dx == xy[1] - gt[1]
        dy == xy[2] - gt[4]
        det == gt[2] * gt[6] - gt[3] * gt[5]
    IN  <<FloorDiv(gt[6] * dx - gt[3] * dy, det),
          FloorDiv(gt[2] * dy - gt[5] * dx, det)>>

\* if u < 0 or u >= size_u or v < 0 or v > size_v: raise OutOfExtent
RaisesOutOfExtent(u, v, size_u, size_v) ==
    u < 0 \/ u >= size_u \/ v < 0 \/ v > size_v

\* the values of the bands of an image at a pixel
BandValues(dataset, u, v) ==
    [b \in 1..dataset.RasterCount |-> (10 * b) + ((u + (3 * v)) % 7)]

\* extract_pixel_value: what the call gives for one image
extract_pixel_value(dataset, lat, lon) ==
    LET uv == PixelCoordinates(dataset, lat, lon)
        u == uv[1]
        v == uv[2]
    IN  IF RaisesOutOfExtent(u, v, dataset.RasterXSize, dataset.RasterYSize)
        THEN [kind |-> "OutOfExtent", values |-> <<>>]
        ELSE IF u + 1 > dataset.RasterXSize \/ v + 1 > dataset.RasterYSize
        THEN [kind |-> "read failure", values |-> <<>>]
        ELSE [kind |-> "values", values |-> BandValues(dataset, u, v)]

\* the data items of a coverage: band images and others
DataItems ==
    [semantic : {"bands[1:3]"}, dataset : PixelDatasets]
    \cup [semantic : {"metadata"}, dataset : {CHOOSE d \in PixelDatasets : TRUE}]

DataItemLists ==
    {<<>>} \cup {<<a>> : a \in DataItems} \cup {<<a, b>> : a \in DataItems, b \in DataItems}

\* one call of GetPixelValue.execute(coverage_id, latitude, longitude)
InitPixel ==
    /\ pc = "get_coverage_object"
    /\ exc = None
    /\ result = None
    /\ data_items \in {None} \cup {Some(items) : items \in DataItemLists}
    /\ latitude \in 13..22
    /\ longitude \in 8..17
    /\ item = 0
    /\ pixel_values = <<>>
    /\ EarlyIdle
    /\ PipelineIdle
    /\ LaterIdle

\* coverage = RectifiedDataset.objects.get(identifier=coverage_id)
GetCoverageObject ==
    /\ pc = "get_coverage_object"
    /\ IF data_items = None
       THEN Raise(Some([type |-> "InvalidInputValueError",
                        message |-> "Invalid coverage identifier!"]))
       ELSE pc' = "data_items" /\ UNCHANGED exc
    /\ UNCHANGED <<result, pixelVars, nonPixelVars>>

\* one body of the loop over coverage.data_items.all(). A read outside the
\* image fails with the RuntimeError of GDAL where another module has
\* switched gdal.UseExceptions() on, and with a TypeError on the None that
\* ReadAsArray returns where not
ExtractPixelValue ==
    /\ pc = "data_items"
    /\ item < Len(data_items[1])
    /\ LET data_item == data_items[1][item + 1]
           extracted == extract_pixel_value(data_item.dataset, latitude, longitude)
       IN  IF data_item.semantic = "metadata"
           THEN UNCHANGED <<pc, exc, result, pixel_values>>
           ELSE IF extracted.kind = "OutOfExtent"
           THEN /\ pc' = "returned"
                /\ result' = Some(<<>>)
                /\ UNCHANGED <<exc, pixel_values>>
           ELSE IF extracted.kind = "read failure"
           THEN /\ \E type \in {"RuntimeError", "TypeError"} :
                       Raise(Some([type |-> type, message |-> ""]))
                /\ UNCHANGED <<result, pixel_values>>
           ELSE /\ pixel_values' = pixel_values \o extracted.values
                /\ UNCHANGED <<pc, exc, result>>
    /\ item' = item + 1
    /\ UNCHANGED <<data_items, latitude, longitude, nonPixelVars>>

\* return ",".join("%.18g" % v for v in pixel_values)
ReturnPixelValues ==
    /\ pc = "data_items"
    /\ item = Len(data_items[1])
    /\ pc' = "returned"
    /\ result' = Some(pixel_values)
    /\ UNCHANGED <<exc, pixelVars, nonPixelVars>>

NextPixel ==
    \/ GetCoverageObject
    \/ ExtractPixelValue
    \/ ReturnPixelValues

SpecPixel == InitPixel /\ [][NextPixel]_vars

\* ------------------------------------------------- ProcessLDA.process_sits

\* context.update_progress(percent, message)
update_progress(log, percent, message) ==
    Append(log, [kind |-> "progress", percent |-> percent, message |-> message])

\* the call of a stage of the pipeline
CallStage(log, stage) ==
    Append(log, [kind |-> "call", percent |-> 0, message |-> stage])

\* a milestone: the progress is reported, then the stage is called
Announce_afterCall(log, percent, message, stage) ==
    update_progress(CallStage(log, stage), percent, message)

Announce(log, percent, message, stage) ==
    CallStage(update_progress(log, percent, message), stage)

\* what lda_wrapper reports through status_callback=context.update_progress
AlgorithmCallbacks ==
    {<<>>,
     <<[kind |-> "progress", percent |-> 50, message |-> "LDA"]>>,
     <<[kind |-> "progress", percent |-> 20, message |-> "LDA"],
       [kind |-> "progress", percent |-> 80, message |-> "LDA"]>>}

\* one call of process_sits; the time series and the files are those of
\* download_coverages
InitPipeline ==
    /\ pc = "process_sits"
    /\ coverages \in CovLists
    /\ selection \in AOIs
    /\ scaling_factor = 1
    /\ interp_method = "nearest-neighbour"
    /\ dir \in {"absent", "exists"}
    /\ fs = [f \in FileNames |-> Absent]
    /\ idx = 0
    /\ options = master_options(interp_method, selection, scaling_factor)
    /\ output_srid = None
    /\ gc_output_srid = None
    /\ caller = "download_coverages"
    /\ images = <<>>
    /\ requests = <<>>
    /\ streams = {}
    /\ files = {}
    /\ exc = None
    /\ result = None
    /\ events = <<>>
    /\ QueryIdle
    /\ StatIdle
    /\ RasterizeIdle
    /\ PixelIdle
    /\ LaterIdle

PipelineFrame ==
    UNCHANGED <<downloadVars, queryVars, statVars, rasterizeVars, pixelVars,
                laterVars>>

\* context.update_progress(0, ...); sits_content = download_coverages(...)
StartDownload ==
    /\ pc = "process_sits"
    /\ events' = Announce(events, 0, "Preparing the inputs data subsets.",
                          "download_coverages")
    /\ pc' = "makedirs"
    /\ UNCHANGED <<exc, result>>
    /\ PipelineFrame

\* download_coverages has returned: context.update_progress(5, ...) and the
\* call of lda_wrapper, which reports its own progress and returns or fails
ExecuteAlgorithm ==
    /\ pc = "returned"
    /\ \E callbacks \in AlgorithmCallbacks, failed \in BOOLEAN :
          /\ events' = Announce(events, 5, "Executing the algorithm.", "lda_wrapper")
                           \o callbacks
          /\ IF failed
             THEN Raise(Some("FloatingPointError"))
             ELSE pc' = "classified" /\ UNCHANGED exc
    /\ UNCHANGED result
    /\ PipelineFrame

\* context.update_progress(95, ...); rasterize_shapes(...)
RasterizeReference ==
    /\ pc = "classified"
    /\ events' = Announce(events, 95, "Rasterizing the reference land cover.",
                          "rasterize_shapes")
    /\ \E failed \in BOOLEAN :
          IF failed
          THEN Raise(Some("ValueError"))
          ELSE pc' = "rasterized" /\ UNCHANGED exc
    /\ UNCHANGED result
    /\ PipelineFrame

\* context.update_progress(98, ...); write_class_statistics(...); the
\* outputs are published and registered
CalculateStatistics ==
    /\ pc = "rasterized"
    /\ events' = Announce(events, 98, "Calculating statistics.",
                          "write_class_statistics")
    /\ \E failed \in BOOLEAN :
          IF failed
          THEN Raise(Some("ValueError"))
          ELSE pc' = "finished" /\ UNCHANGED exc
    /\ UNCHANGED result
    /\ PipelineFrame

NextPipeline ==
    \/ StartDownload
    \/ Next
    \/ ExecuteAlgorithm
    \/ RasterizeReference
    \/ CalculateStatistics

SpecPipeline == InitPipeline /\ [][NextPipeline]_vars

\* ------------------------------------------------- parse_srs and pack_srs

\* the largest EPSG code of the range tried, besides the codes in use
MaxCode == 40

Codes == 0..MaxCode \cup {3035, 4326, 32633}

\* s with the character at position i replaced by c
ReplaceChar(s, i, c) == [s EXCEPT ![i] = c]

\* strings handed to parse_srs: the canonical URI of a code, and a URI with
\* another notation, a missing or malformed code, another character in the
\* place of a dot of the host name, or something after the code
SrsStrings(c) ==
    {pack_srs(c),
     SrsPrefix \o <<"0", "0">> \o FormatDecimal(c),
     <<>>,
     SrsPrefix,
     <<"u", "r", "n", ":", "o", "g", "c", ":", "d", "e", "f", ":", "c", "r", "s",
       ":", "E", "P", "S", "G", ":", ":">> \o FormatDecimal(c),
     <<"E", "P", "S", "G", ":">> \o FormatDecimal(c),
     SrsPrefix \o <<"-">> \o FormatDecimal(c),
     pack_srs(c) \o <<"a">>,
     pack_srs(c) \o <<" ">>,
     pack_srs(c) \o <<"\n">>,
     pack_srs(c) \o <<"\n", "\n">>,
     <<" ">> \o pack_srs(c),
     ReplaceChar(pack_srs(c), 11, "/"),
     ReplaceChar(pack_srs(c), 19, "-"),
     ReplaceChar(pack_srs(c), 11, "\n"),
     ReplaceChar(pack_srs(c), 1, "H")}

\* one call of pack_srs(srid) and of parse_srs, on the packed string or on a
\* string of its own
InitSrs ==
    /\ pc = "start"
    /\ exc = None
    /\ result = None
    /\ srid_arg \in Codes
    /\ srs_arg \in SrsStrings(srid_arg)
    /\ ProcessorIdle
    /\ ViewIdle
    /\ DownloadIdle
    /\ QueryIdle
    /\ StatIdle
    /\ RasterizeIdle
    /\ PixelIdle
    /\ PipelineIdle

SrsFrame ==
    UNCHANGED <<exc, downloadVars, queryVars, statVars, rasterizeVars, pixelVars,
                pipelineVars, processorVars, viewVars>>

\* srs = pack_srs(srid)
PackSrs ==
    /\ pc = "start"
    /\ srs_arg' = pack_srs(srid_arg)
    /\ pc' = "packed"
    /\ UNCHANGED <<srid_arg, result>>
    /\ SrsFrame

\* parse_srs(srs)
ParseSrs ==
    /\ pc \in {"start", "packed"}
    /\ result' = Some(parse_srs(srs_arg))
    /\ pc' = IF pc = "packed" THEN "parsed packed" ELSE "parsed"
    /\ UNCHANGED <<srid_arg, srs_arg>>
    /\ SrsFrame

NextSrs == PackSrs \/ ParseSrs

SpecSrs == InitSrs /\ [][NextSrs]_vars

\* ------------------------------------- SITSProcessor.initialize and execute

\* the number of WPS executions (requests) handled at the same time
MaxWorkers == 2

Workers == 1..MaxWorkers

\* Job.STATUS_CHOICES
CREATED == "C"
ACCEPTED == "E"
IN_PROGRESS == "R"
FINISHED == "S"
ABORTED == "A"
FAILED == "F"

\* the identifiers of the Job objects the user owns for the process
JobIdentifiers == {"job-1"}

\* the header X-DAMATS-Job-Id of a request: absent, the identifier of a job
\* of the user, or another one
JobIdInputs == {None, Some("job-1"), Some("job-2")}

\* context.identifier of the WPS execution w
ContextIdentifier(w) == w

NoApplicableCode(message) ==
    [type |-> "NoApplicableCode", message |-> message, locator |-> "Unauthorized"]

\* update_object(obj, **kwargs): the attributes are set on the local object
\* and obj.save() writes every field of the local object to the row
update_object(obj, kwargs) ==
    [field \in DOMAIN obj |->
        IF field \in DOMAIN kwargs THEN kwargs[field] ELSE obj[field]]

\* what get_user and get_process meet: the user and the process the request
\* names, or no active user, or no process the user may invoke
Authorisations == {"authorised", "User.DoesNotExist", "Process.DoesNotExist"}

\* the WPS executions of one process; each is initialized and then executed
InitProcessor ==
    /\ pc = [w \in Workers |-> "initialize"]
    /\ exc = [w \in Workers |-> None]
    /\ result = None
    /\ jobs \in [JobIdentifiers ->
                    [status : {CREATED}, wps_job_id : {None}]
                    \cup [status : {ACCEPTED, FINISHED, FAILED},
                          wps_job_id : {Some(0)}]]
    /\ job_id \in [Workers -> JobIdInputs]
    /\ job = [w \in Workers |-> None]
    /\ ViewIdle
    /\ SrsIdle
    /\ EarlyIdle
    /\ PixelIdle
    /\ PipelineIdle

ProcessorFrame ==
    UNCHANGED <<result, job_id, viewVars, srsVars, earlyVars, pixelVars,
                pipelineVars>>

\* initialize up to job = get_job(user, process, job_id)
InitializeGetJob(w) ==
    /\ pc[w] = "initialize"
    /\ \E authorisation \in Authorisations :
          IF authorisation = "User.DoesNotExist"
          THEN /\ exc' = [exc EXCEPT ![w] = Some(NoApplicableCode(
                                "This process requires an authorized user!"))]
               /\ pc' = [pc EXCEPT ![w] = "rejected"]
               /\ UNCHANGED job
          ELSE IF authorisation = "Process.DoesNotExist"
          THEN /\ exc' = [exc EXCEPT ![w] = Some(NoApplicableCode(
                                "The user is not authorized to invoke this process!"))]
               /\ pc' = [pc EXCEPT ![w] = "rejected"]
               /\ UNCHANGED job
          ELSE IF job_id[w] = None
          THEN /\ pc' = [pc EXCEPT ![w] = "initialized"]
               /\ UNCHANGED <<exc, job>>
          ELSE IF job_id[w][1] \notin DOMAIN jobs
          THEN /\ exc' = [exc EXCEPT ![w] = Some(NoApplicableCode(
                                "Invalid job identifier!"))]
               /\ pc' = [pc EXCEPT ![w] = "rejected"]
               /\ UNCHANGED job
          ELSE /\ job' = [job EXCEPT ![w] = Some(jobs[job_id[w][1]])]
               /\ pc' = [pc EXCEPT ![w] = "job read"]
               /\ UNCHANGED exc
    /\ UNCHANGED jobs
    /\ ProcessorFrame

\* initialize from `if job.wps_job_id is not None` on
InitializeUpdate(w) ==
    /\ pc[w] = "job read"
    /\ IF job[w][1].wps_job_id # None
       THEN /\ exc' = [exc EXCEPT ![w] = Some(NoApplicableCode(
                             "The job has been already executed!"))]
            /\ pc' = [pc EXCEPT ![w] = "rejected"]
            /\ UNCHANGED <<jobs, job>>
       ELSE LET saved == update_object(job[w][1],
                             [status |-> ACCEPTED,
                              wps_job_id |-> Some(ContextIdentifier(w))])
            IN  /\ job' = [job EXCEPT ![w] = Some(saved)]
                /\ jobs' = [jobs EXCEPT ![job_id[w][1]] = saved]
                /\ pc' = [pc EXCEPT ![w] = "initialized"]
                /\ UNCHANGED exc
    /\ ProcessorFrame

\* execute up to job = get_job(user, process, job_id)
ExecuteGetJob(w) ==
    /\ pc[w] = "initialized"
    /\ \E authorisation \in Authorisations :
          IF authorisation = "User.DoesNotExist"
             \/ (authorisation = "Process.DoesNotExist" /\ job_id[w] # None)
          THEN /\ exc' = [exc EXCEPT ![w] = Some([type |-> authorisation])]
               /\ pc' = [pc EXCEPT ![w] = "raised"]
               /\ UNCHANGED job
          ELSE /\ job' = [job EXCEPT ![w] =
                              IF job_id[w] # None THEN Some(jobs[job_id[w][1]])
                              ELSE None]
               /\ pc' = [pc EXCEPT ![w] = "get_sits"]
               /\ UNCHANGED exc
    /\ UNCHANGED jobs
    /\ ProcessorFrame

\* sits = get_sits(user, sits_id), then update_object(job, status=IN_PROGRESS)
ExecuteGetSits(w) ==
    /\ pc[w] = "get_sits"
    /\ \E found \in BOOLEAN :
          IF ~found
          THEN /\ exc' = [exc EXCEPT ![w] =
                              Some([type |-> "InvalidInputValueError",
                                    locator |-> "sits"])]
               /\ pc' = [pc EXCEPT ![w] = "raised"]
               /\ UNCHANGED <<jobs, job>>
          ELSE /\ pc' = [pc EXCEPT ![w] = "process_sits"]
               /\ UNCHANGED exc
               /\ IF job[w] # None
                  THEN LET saved == update_object(job[w][1],
                                                  [status |-> IN_PROGRESS])
                       IN  /\ job' = [job EXCEPT ![w] = Some(saved)]
                           /\ jobs' = [jobs EXCEPT ![job_id[w][1]] = saved]
                  ELSE UNCHANGED <<jobs, job>>
    /\ ProcessorFrame

\* self.process_sits(...) returns or raises, and the status is updated
ProcessSits(w) ==
    /\ pc[w] = "process_sits"
    /\ \E failed \in BOOLEAN :
          /\ IF failed
             THEN /\ exc' = [exc EXCEPT ![w] = Some([type |-> "Exception"])]
                  /\ pc' = [pc EXCEPT ![w] = "raised"]
             ELSE /\ pc' = [pc EXCEPT ![w] = "returned"]
                  /\ UNCHANGED exc
          /\ IF job[w] # None
             THEN LET saved == update_object(job[w][1],
                                   [status |-> IF failed THEN FAILED ELSE FINISHED])
                  IN  /\ job' = [job EXCEPT ![w] = Some(saved)]
                      /\ jobs' = [jobs EXCEPT ![job_id[w][1]] = saved]
             ELSE UNCHANGED <<jobs, job>>
    /\ ProcessorFrame

NextProcessor ==
    \E w \in Workers :
        \/ InitializeGetJob(w)
        \/ InitializeUpdate(w)
        \/ ExecuteGetJob(w)
        \/ ExecuteGetSits(w)
        \/ ProcessSits(w)

SpecProcessor == InitProcessor /\ [][NextProcessor]_vars

\* ---------------------------------------------------------- the REST views

\* the identifiers of the coverages of the source series of the time series
SourceCoverages == {"cov-a"}

\* the coverages a request names: those of the source and another one
CoverageNames == SourceCoverages \cup {"cov-x"}

\* the active users; "mallory" is a REMOTE_USER that is no active user
Users == {"alice", "bob"}

RemoteUsers == Users \cup {"mallory"}

\* user.groups
Groups(user) == IF user = "bob" THEN {"team"} ELSE {}

\* id_list: the identifiers of the user and of the user's groups
IdList(user) == {user} \cup Groups(user)

\* the readers an object is shared with
ReaderSets == {{}, {"bob"}, {"bob", "team"}}

\* json.dumps(pack_datetime(obj)) of an object without date-times
json_dumps(obj) == <<"json", obj>>

\* value or None
OrNone(value) == IF value = "" THEN None ELSE Some(value)

\* the number of rows of the query set
\* filter(Q(owner=user) | Q(readers__identifier__in=id_list)) for the object
\* with the identifier: the filter joins the readers and there is no
\* distinct(), so an object comes once for every reader joined that passes
Rows(table, user, identifier) ==
    IF identifier \notin DOMAIN table THEN 0
    ELSE LET obj == table[identifier]
         IN  IF obj.owner = user
             THEN Max(1, Cardinality(obj.readers))
             ELSE Cardinality(obj.readers \cap IdList(user))

\* QuerySet.get on these rows
QuerySetGet(table, user, identifier) ==
    LET rows == Rows(table, user, identifier)
    IN  IF rows = 0 THEN "DoesNotExist"
        ELSE IF rows = 1 THEN "found"
        ELSE "MultipleObjectsReturned"

\* obj.jobs.exists()
JobsExist(identifier) ==
    \E id \in DOMAIN jobs : jobs[id].time_series = identifier

\* the response with the status, and the tables as they are
Answer(status) ==
    [status |-> status, jobs |-> jobs, time_series |-> time_series,
     links |-> links, purged |-> purged]

\* the map m without the key
Without(m, key) == [k \in DOMAIN m \ {key} |-> m[k]]

\* the body of a request: absent, not parseable, or the parsed object
EmptyBody == [body |-> "empty"]

Malformed == [body |-> "malformed"]

JobBodies ==
    {[name |-> "a", description |-> ""],
     [name |-> "a", description |-> "b", inputs |-> 1]}

TimeSeriesBodies ==
    {[editable |-> TRUE], [editable |-> FALSE, name |-> "a"]}

Methods == {"GET", "POST", "PUT", "DELETE"}

\* requests on job_item_view
JobRequests ==
    [view : {"job_item_view"}, user : RemoteUsers, method : Methods \ {"PUT"},
     identifier : {"job-1"}, body : {EmptyBody}]
    \cup [view : {"job_item_view"}, user : RemoteUsers, method : {"PUT"},
          identifier : {"job-1"}, body : {EmptyBody, Malformed} \cup JobBodies]

\* requests on time_series_item_view
TimeSeriesRequests ==
    [view : {"time_series_item_view"}, user : RemoteUsers,
     method : {"GET", "DELETE"}, identifier : {"sits-1"},
     body : {EmptyBody}]
    \cup [view : {"time_series_item_view"}, user : RemoteUsers,
          method : {"PUT"}, identifier : {"sits-1"},
          body : {EmptyBody, Malformed} \cup TimeSeriesBodies]
    \cup [view : {"time_series_item_view"}, user : RemoteUsers,
          method : {"POST"}, identifier : {"sits-1"},
          body : {EmptyBody, Malformed}
                     \cup {[id |-> c] : c \in CoverageNames}]

\* requests on time_series_coverage_view
CoverageRequests ==
    [view : {"time_series_coverage_view"}, user : RemoteUsers,
     method : Methods \ {"PUT"}, identifier : {"sits-1"},
     coverage : CoverageNames, body : {EmptyBody}]
    \cup [view : {"time_series_coverage_view"}, user : RemoteUsers,
          method : {"PUT"}, identifier : {"sits-1"},
          coverage : CoverageNames,
          body : {EmptyBody, Malformed, [in |-> TRUE], [in |-> FALSE]}]

\* requests on jobs_view that create a job
CreateRequests ==
    [view : {"jobs_view"}, user : RemoteUsers, method : {"POST"},
     body : {Malformed, [process |-> "lda", time_series |-> "sits-1"]}]

\* rest_json: the body does not parse, or there is no parser for the method
BadRequest(req, parsers) ==
    /\ req.body # EmptyBody
    /\ \/ req.body = Malformed
       \/ req.method \notin parsers

RunningJob_acceptedOnly(obj) == obj.status = ACCEPTED

\* block removal of the accepted and in-progress jobs
RunningJob(obj) == obj.status \in {ACCEPTED, IN_PROGRESS}

InputsWritable_always(obj) == TRUE

\* the inputs are written by PUT
InputsWritable(obj) == obj.status = CREATED

ReadOnlyTimeSeries_ignoresJobs(obj, user, identifier) ==
    \/ ~obj.editable
    \/ obj.owner # user

\* not obj.editable or obj.owner != user or obj.jobs.exists()
ReadOnlyTimeSeries(obj, user, identifier) ==
    \/ ~obj.editable
    \/ obj.owner # user
    \/ JobsExist(identifier)

\* job_item_view below the decorators
job_item_view_body(req) ==
    LET obj == jobs[req.identifier]
    IN  IF QuerySetGet(jobs, req.user, req.identifier) = "DoesNotExist"
        THEN Answer(404)
        ELSE IF req.method = "DELETE"
        THEN IF obj.owner # req.user THEN Answer(405)
             ELSE IF RunningJob(obj) THEN Answer(405)
             ELSE [Answer(204) EXCEPT
                      !.purged = IF obj.wps_job_id # None
                                 THEN purged \cup {obj.wps_job_id[1]}
                                 ELSE purged,
                      !.jobs = Without(jobs, req.identifier)]
        ELSE IF req.method = "PUT"
        THEN IF obj.owner # req.user THEN Answer(405)
             ELSE IF req.body = EmptyBody THEN Answer(500)
             ELSE LET input == req.body
                      named == IF "name" \in DOMAIN input
                               THEN [obj EXCEPT !.name = OrNone(input.name)]
                               ELSE obj
                      described ==
                          IF "description" \in DOMAIN input
                          THEN [named EXCEPT
                                   !.description = OrNone(input.description)]
                          ELSE named
                      saved ==
                          IF "inputs" \in DOMAIN input /\ InputsWritable(obj)
                          THEN [described EXCEPT
                                   !.inputs = json_dumps(input.inputs)]
                          ELSE described
                  IN  [Answer(200) EXCEPT
                          !.jobs = [jobs EXCEPT ![req.identifier] = saved]]
        ELSE Answer(200)

\* error_handler, authorisation, method_allow_conditional and rest_json
\* around a view: the user is looked up, then the condition is evaluated,
\* then the method is tested, then the body is parsed
Decorated(req, table, allowed_true, allowed_false, parsers, body_answer) ==
    IF req.user \notin Users THEN Answer(401)
    ELSE LET got == QuerySetGet(table, req.user, req.identifier)
         IN  IF got = "DoesNotExist" THEN Answer(404)
             ELSE IF got = "MultipleObjectsReturned" THEN Answer(500)
             ELSE IF req.method \notin
                        (IF table[req.identifier].owner = req.user
                         THEN allowed_true ELSE allowed_false)
             THEN Answer(405)
             ELSE IF BadRequest(req, parsers) THEN Answer(400)
             ELSE body_answer

job_item_view(req) ==
    Decorated(req, jobs, {"GET", "PUT", "DELETE"}, {"GET"}, Methods,
              job_item_view_body(req))

\* time_series_item_view below the decorators
time_series_item_view_body(req) ==
    LET obj == time_series[req.identifier]
        linked == links[req.identifier]
    IN  IF QuerySetGet(time_series, req.user, req.identifier) = "DoesNotExist"
        THEN Answer(404)
        ELSE IF req.method = "DELETE"
        THEN IF obj.owner # req.user THEN Answer(405)
             ELSE [Answer(204) EXCEPT
                      !.time_series = Without(time_series, req.identifier),
                      !.links = Without(links, req.identifier),
                      !.jobs = [id \in {i \in DOMAIN jobs :
                                          jobs[i].time_series # req.identifier}
                                |-> jobs[id]]]
        ELSE IF req.method = "PUT"
        THEN IF obj.owner # req.user THEN Answer(405)
             ELSE IF req.body = EmptyBody THEN Answer(500)
             ELSE LET input == req.body
                      edited == IF "editable" \in DOMAIN input
                                THEN [obj EXCEPT !.editable = input.editable]
                                ELSE obj
                      saved == IF "name" \in DOMAIN input
                               THEN [edited EXCEPT !.name = OrNone(input.name)]
                               ELSE edited
                  IN  [Answer(200) EXCEPT
                          !.time_series =
                              [time_series EXCEPT ![req.identifier] = saved]]
        ELSE IF req.method = "POST"
        THEN IF ReadOnlyTimeSeries(obj, req.user, req.identifier)
             THEN Answer(405)
             ELSE IF req.body = EmptyBody THEN Answer(500)
             ELSE IF req.body.id \in linked THEN Answer(409)
             ELSE IF req.body.id \notin SourceCoverages THEN Answer(422)
             ELSE [Answer(201) EXCEPT
                      !.links = [links EXCEPT
                                    ![req.identifier] = linked \cup {req.body.id}]]
        ELSE Answer(200)

time_series_item_view(req) ==
    Decorated(req, time_series, {"GET", "POST", "PUT", "DELETE"}, {"GET"},
              {"PUT", "POST"}, time_series_item_view_body(req))

\* time_series_coverage_view below the decorators
time_series_coverage_view_body(req) ==
    LET obj == time_series[req.identifier]
        linked == links[req.identifier]
    IN  IF QuerySetGet(time_series, req.user, req.identifier) = "DoesNotExist"
        THEN Answer(404)
        ELSE IF req.coverage \notin
                   (IF req.method = "PUT" THEN SourceCoverages ELSE linked)
        THEN Answer(404)
        ELSE IF req.method = "DELETE"
        THEN IF ReadOnlyTimeSeries(obj, req.user, req.identifier)
             THEN Answer(405)
             ELSE [Answer(204) EXCEPT
                      !.links = [links EXCEPT
                                    ![req.identifier] = linked \ {req.coverage}]]
        ELSE IF req.method = "PUT"
        THEN IF ReadOnlyTimeSeries(obj, req.user, req.identifier)
             THEN Answer(405)
             ELSE IF req.body = EmptyBody THEN Answer(500)
             ELSE LET exists == req.coverage \in linked
                  IN  [Answer(200) EXCEPT
                          !.links =
                              [links EXCEPT ![req.identifier] =
                                  IF req.body.in /\ ~exists
                                  THEN linked \cup {req.coverage}
                                  ELSE IF ~req.body.in /\ exists
                                  THEN linked \ {req.coverage}
                                  ELSE linked]]
        ELSE Answer(200)

time_series_coverage_view(req) ==
    Decorated(req, time_series, {"GET", "PUT", "DELETE"}, {"GET"}, Methods,
              time_series_coverage_view_body(req))

\* jobs_view for POST: create_job for the one job identifier there is
jobs_view(req) ==
    IF req.user \notin Users THEN Answer(401)
    ELSE IF req.body = Malformed THEN Answer(400)
    ELSE LET got == QuerySetGet(time_series, req.user, req.body.time_series)
         IN  IF got = "DoesNotExist" THEN Answer(400)
             ELSE IF got = "MultipleObjectsReturned" THEN Answer(500)
             ELSE [Answer(200) EXCEPT
                      !.jobs = [id \in DOMAIN jobs \cup {"job-1"} |->
                                  IF id = "job-1"
                                  THEN [owner |-> req.user,
                                        readers |-> {},
                                        status |-> CREATED,
                                        wps_job_id |-> None,
                                        name |-> None,
                                        description |-> None,
                                        inputs |-> json_dumps(0),
                                        time_series |-> req.body.time_series]
                                  ELSE jobs[id]]]

\* a job of alice for the time series, as created or as the WPS back-end
\* has left it
CreatedJobRows ==
    [owner : {"alice"}, readers : ReaderSets, status : {CREATED},
     wps_job_id : {None}, name : {None}, description : {None},
     inputs : {json_dumps(0)}, time_series : {"sits-1"}]

JobRows ==
    CreatedJobRows
    \cup [owner : {"alice"}, readers : ReaderSets,
          status : {ACCEPTED, IN_PROGRESS, FINISHED, ABORTED, FAILED},
          wps_job_id : {Some(7)}, name : {None}, description : {None},
          inputs : {json_dumps(0)}, time_series : {"sits-1"}]

TimeSeriesRows ==
    [owner : {"alice"}, readers : ReaderSets, editable : BOOLEAN, name : {None}]

ViewsIdle ==
    /\ pc = "serving"
    /\ exc = None
    /\ result = None
    /\ purged = {}
    /\ request = None
    /\ reply = None
    /\ job_id = <<>>
    /\ job = <<>>
    /\ SrsIdle
    /\ EarlyIdle
    /\ PixelIdle
    /\ PipelineIdle

\* the tables before the requests: one time series of alice with its linked
\* coverages, with or without a job that is not submitted
InitViews ==
    /\ time_series \in [{"sits-1"} -> TimeSeriesRows]
    /\ links \in [{"sits-1"} -> SUBSET SourceCoverages]
    /\ jobs \in {<<>>} \cup [{"job-1"} -> CreatedJobRows]
    /\ ViewsIdle

\* the tables before the requests on jobs: one time series of alice, with or
\* without a job in any status
InitJobViews ==
    /\ time_series \in [{"sits-1"} -> {row \in TimeSeriesRows : row.editable}]
    /\ links = [id \in {"sits-1"} |-> {}]
    /\ jobs \in {<<>>} \cup [{"job-1"} -> JobRows]
    /\ ViewsIdle

ViewsFrame ==
    UNCHANGED <<pc, exc, result, job_id, job, srsVars, earlyVars, pixelVars,
                pipelineVars>>

\* one request served: the tables and the response are those of the view
Serve(req, answer) ==
    \E served \in {answer} :
        /\ request' = Some(req)
        /\ reply' = Some(served.status)
        /\ jobs' = served.jobs
        /\ time_series' = served.time_series
        /\ links' = served.links
        /\ purged' = served.purged
        /\ ViewsFrame

JobItemView ==
    /\ pc = "serving"
    /\ \E req \in JobRequests : Serve(req, job_item_view(req))

TimeSeriesItemView ==
    /\ pc = "serving"
    /\ \E req \in TimeSeriesRequests : Serve(req, time_series_item_view(req))

TimeSeriesCoverageView ==
    /\ pc = "serving"
    /\ \E req \in CoverageRequests : Serve(req, time_series_coverage_view(req))

\* jobs_view for POST, while the one job identifier is free
JobsView ==
    /\ pc = "serving"
    /\ "job-1" \notin DOMAIN jobs
    /\ \E req \in CreateRequests : Serve(req, jobs_view(req))

\* the WPS back-end moves a job on: accepted, running, ended
JobStatusChange ==
    /\ pc = "serving"
    /\ \E id \in DOMAIN jobs :
          \E status \in {ACCEPTED, IN_PROGRESS, FINISHED, FAILED} :
              /\ \/ jobs[id].status = CREATED /\ status = ACCEPTED
                 \/ jobs[id].status = ACCEPTED /\ status = IN_PROGRESS
                 \/ jobs[id].status = IN_PROGRESS /\ status \in {FINISHED, FAILED}
              /\ jobs' = [jobs EXCEPT
                             ![id].status = status,
                             ![id].wps_job_id = Some(7)]
    /\ request' = None
    /\ reply' = None
    /\ UNCHANGED <<time_series, links, purged>>
    /\ ViewsFrame

NextViews ==
    \/ JobItemView
    \/ TimeSeriesItemView
    \/ TimeSeriesCoverageView
    \/ JobsView

SpecViews == InitViews /\ [][NextViews]_vars

NextJobViews ==
    \/ JobItemView
    \/ JobsView
    \/ JobStatusChange

SpecJobViews == InitJobViews /\ [][NextJobViews]_vars

\* ------------------------------------------------------------ properties

Describes == {i \in DOMAIN requests : requests[i].request = "describeCoverage"}

GetCoverages == {i \in DOMAIN requests : requests[i].request = "getCoverage"}

MasterRequests == {i \in GetCoverages : requests[i].idx = 0}

SlaveRequests == {i \in GetCoverages : requests[i].idx > 0}

\* the file of the first (master) coverage
MasterFile == fs[<<OutputDir, coverages[1], ".tif">>]

AoiSubset == [x |-> <<selection.left, selection.right>>,
              y |-> <<selection.bottom, selection.top>>]

Terminated == pc \in {"raised", "returned"}

\* C1, for one slave request r: both SRIDs are the SRID resolved for the
\* master, no scale is given, and size and subset are the pixel size of the
\* master file and the extent its geotransform gives to the pixel corners
\* (0, 0) and (size_x, size_y), not the AOI.
C1_SlaveRequest(r) ==
    /\ r.options.subsetting_srid = output_srid
    /\ r.options.output_srid = output_srid
    /\ r.args.subsettingCrs = r.args.outputCrs
    /\ r.options.scale = None
    /\ r.args.scaleFactor = None
    /\ MasterFile.state = "complete"
    /\ LET d == MasterFile.data[1]
           t == d.trn
       IN  /\ r.options.size = Some([x |-> d.size_x, y |-> d.size_y])
           /\ r.args.scaleSize = r.options.size
           /\ r.options.subset =
                Some([x |-> <<t[1], t[1] + t[2] * d.size_x + t[3] * d.size_y>>,
                      y |-> <<t[4] + t[5] * d.size_x + t[6] * d.size_y, t[4]>>])
    /\ r.options.subset # Some(AoiSubset)

C2_SlaveAfterMasterRead ==
    [][(/\ Len(requests') > Len(requests)
        /\ requests'[Len(requests')].request = "getCoverage"
        /\ requests'[Len(requests')].idx > 0)
       => (/\ MasterFile.state = "complete"
           /\ MasterFile.data[1] \in Rasters
           /\ files = {} /\ streams = {}
           /\ Len(images) >= 1
           /\ images[1] = <<OutputDir, coverages[1], ".tif">>
           /\ MasterRequests # {}
           /\ options.size = Some([x |-> MasterFile.data[1].size_x,
                                   y |-> MasterFile.data[1].size_y]))]_vars

C2_Witness ==
    /\ SlaveRequests # {}
    /\ pc = "open"

C4_EmptyListFailsWithEmptySITSError ==
    (coverages = <<>> /\ Terminated)
        => (exc = Some("EmptySITSError") /\ requests = <<>>)

\* C4, amended: for an empty list the call sends no request and never
\* returns; it fails with EmptySITSError when the output directory could be
\* created and with the error of makedirs when the directory exists already.
C4_EmptyListFailsWithoutRequest ==
    coverages = <<>> =>
        /\ requests = <<>>
        /\ streams = {}
        /\ pc # "returned"
        /\ pc = "raised" =>
             exc = IF dir = "exists" THEN Some("OSError") ELSE Some("EmptySITSError")

C4_Witness ==
    /\ coverages = <<>>
    /\ exc = Some("EmptySITSError")

\* C5 as stated: the empty-list check comes before the creation of the output
\* directory, so a call that fails on the empty list has created no directory.
C5_EmptyCheckBeforeMakeDirs ==
    (coverages = <<>> /\ pc = "raised") => dir # "created"

\* C5, amended: the output directory is created before the empty-list check:
\* a call that fails with EmptySITSError has an empty list, has created the
\* output directory, and has put no file into it nor sent a request.
C5_MakeDirsBeforeEmptyCheck ==
    exc = Some("EmptySITSError") =>
        /\ coverages = <<>>
        /\ dir = "created"
        /\ \A f \in FileNames : fs[f].state = "absent"
        /\ requests = <<>>

C5_Witness ==
    /\ exc = Some("EmptySITSError")
    /\ dir = "created"
    /\ pc = "raised"

\* C6: when the output directory exists already, the call fails at the
\* creation of the directory: no request is sent, no file is opened, and no
\* file of the directory is created or overwritten.
C6_ExistingDirectoryIsFatal ==
    /\ [](dir = "exists" =>
            /\ pc \in {"makedirs", "raised"}
            /\ pc = "raised" => exc = Some("OSError")
            /\ requests = <<>>
            /\ files = {}
            /\ result = None)
    /\ [][dir = "exists" => (fs' = fs /\ dir' = dir)]_vars

C6_Witness ==
    /\ dir = "exists"
    /\ pc = "raised"
    /\ coverages # <<>>
    /\ \E f \in FileNames : fs[f].state = "old"

\* C7: the returned list has the length of the identifier list and its i-th
\* element is the path <output_dir>/<ids[i]>.tif.
C7_ReturnedPathsInInputOrder ==
    pc = "returned" =>
        /\ result # None
        /\ coverages # <<>>
        /\ Len(result[1]) = Len(coverages)
        /\ \A i \in 1..Len(coverages) :
              result[1][i] = <<OutputDir, coverages[i], ".tif">>

C7_Witness ==
    /\ pc = "returned"
    /\ Len(coverages) >= 2

\* C8: when the describeCoverage or getCoverage request of the k-th coverage
\* faults, the fault leaves the call: nothing is returned, the faulting
\* request is the last one sent and no request is for a coverage after k,
\* the files of the coverages before k are complete on disk, and the call
\* takes no further step.
C8_FaultAborts ==
    /\ [](exc \in {Some(f) : f \in QueryFaults} =>
            /\ pc = "raised"
            /\ result = None
            /\ requests # <<>>
            /\ requests[Len(requests)].idx = idx
            /\ \A i \in DOMAIN requests : requests[i].idx <= idx
            /\ Len(images) = idx
            /\ \A j \in 1..idx :
                  /\ images[j] = <<OutputDir, coverages[j], ".tif">>
                  /\ fs[images[j]].state = "complete"
            /\ streams = {} /\ files = {})
    /\ [][pc # "raised"]_vars

C8_Witness ==
    /\ exc = Some("OWSException")
    /\ idx = 2
    /\ requests[Len(requests)].request = "getCoverage"

OneGetCoveragePerPosition ==
    \A i, j \in GetCoverages : requests[i].idx = requests[j].idx => i = j

\* C9 as stated: at most one getCoverage request per list position, and
\* describeCoverage is sent exactly once, for the master.
C9_DescribeSentOnce ==
    /\ OneGetCoveragePerPosition
    /\ Cardinality(Describes) <= 1
    /\ \A i \in Describes : requests[i].idx = 0
    /\ GetCoverages # {} => Cardinality(Describes) = 1

\* C9, amended: at most one getCoverage request per list position;
\* describeCoverage is sent for the master only, never for a slave: once by
\* download_coverages, before the master's getCoverage request, and a second
\* time, by get_coverage of the master, only when the first description gave
\* no SRID.
C9_DescribeOnlyForMaster ==
    /\ OneGetCoveragePerPosition
    /\ \A i \in Describes : requests[i].idx = 0 /\ requests[i].coverageId = coverages[1]
    /\ \A i \in Describes : \A j \in GetCoverages : i < j
    /\ Cardinality(Describes) <= 2
    /\ Cardinality(Describes) = 2 => output_srid = None
    /\ GetCoverages # {} =>
          Cardinality(Describes) = IF output_srid = None THEN 2 ELSE 1

C9_Witness ==
    /\ pc = "returned"
    /\ Cardinality(Describes) = 2
    /\ SlaveRequests # {}

C11_OutputCrsIsNativeSrid ==
    \A i \in GetCoverages :
        /\ (options.subsetting_srid # None /\ options.output_srid = None) =>
              /\ i = 2
              /\ requests[1].request = "describeCoverage"
              /\ requests[1].coverageId = requests[2].coverageId
              /\ requests[2].args.outputCrs # None
              /\ gc_output_srid # None
              /\ requests[2].args.outputCrs =
                    Some(pack_srs(gc_output_srid[1]))
        /\ options.output_srid # None => Describes = {}

\* C11, amended: a call with a subsetting SRID and no output SRID sends a
\* describeCoverage for the same identifier before the getCoverage request;
\* it emits outputCrs with the SRID the description gave, and no outputCrs
\* at all (never the subsetting SRID) when the description gave no SRID; a
\* call with an explicit output SRID sends no describeCoverage and emits
\* that SRID.
C11_OutputCrsIsDescribedSrid ==
    \A i \in GetCoverages :
        /\ (options.subsetting_srid # None /\ options.output_srid = None) =>
              /\ i = 2
              /\ requests[1].request = "describeCoverage"
              /\ requests[1].coverageId = requests[2].coverageId
              /\ requests[2].args.outputCrs =
                    IF gc_output_srid = None THEN None
                    ELSE Some(pack_srs(gc_output_srid[1]))
        /\ options.output_srid # None =>
              /\ Describes = {}
              /\ requests[i].args.outputCrs =
                    Some(pack_srs(options.output_srid[1]))
        /\ options.subsetting_srid = None => Describes = {}

C11_Witness ==
    /\ pc = "open"
    /\ Cardinality(Describes) = 1
    /\ options.subsetting_srid = Some(4326)
    /\ requests[2].args.outputCrs = Some(pack_srs(3035))

\* C12: for an HTTP error response whose content type is XML and whose body
\* holds a protocol exception element the caller receives one OWSException
\* built from the exception code, the optional locator and the exception
\* text; for one whose content type is not XML the caller receives the
\* original HTTPError.
C12_ProtocolFaultOrOriginalError ==
    (pc = "raised" /\ response[1].kind = "http-error") =>
        LET r == response[1]
        IN  /\ (r.ctype = "text/xml" /\ r.body.wellformed /\ r.body.exception # None) =>
                  LET elm == r.body.exception[1]
                  IN  /\ exc[1].type = "OWSException"
                      /\ exc[1].message[1] = elm.exceptionCode
                      /\ exc[1].message[2] =
                            IF elm.locator \in {None, Some("")} THEN <<>>
                            ELSE <<"(", elm.locator[1], ")">>
                      /\ elm.text # None => exc[1].message[4] = elm.text[1]
            /\ r.ctype \notin {"text/xml", "application/xml"} =>
                  exc = Some([type |-> "HTTPError", message |-> <<>>,
                              response |-> Some(r)])

\* ---------------------------------- properties of write_class_statistics

\* the pixel positions of the classification raster
Positions ==
    (0..(img_class.RasterXSize - 1)) \X (0..(img_class.RasterYSize - 1))

ClassAt(p) == Pixel(img_class, p[1], p[2])

ReferenceAt(p) == Pixel(img_class_ref, p[1], p[2])

\* the two rasters break a precondition of calculate_2d_class_histogram
InvalidImages ==
    \/ img_class.RasterXSize # img_class_ref.RasterXSize
    \/ img_class.RasterYSize # img_class_ref.RasterYSize
    \/ img_class.RasterCount # 1
    \/ img_class_ref.RasterCount # 1
    \/ img_class.DataType # "GDT_Byte"
    \/ img_class_ref.DataType # "GDT_Byte"

\* C13: when the two rasters differ in width or height, or one has a band
\* count other than 1, or one band is not 8-bit unsigned, the call never gets
\* past the checks: it fails with a ValueError, no tile is ever read and the
\* output file is neither opened nor written.
C13_InvalidImagesFailBeforeAnyRead ==
    InvalidImages =>
        /\ pc \in {"histogram", "raised"}
        /\ pc = "raised" => exc # None /\ exc[1].type = "ValueError"
        /\ reads = <<>>
        /\ out.rows = <<>>
        /\ fout = "path" => out.state = "unopened"

C13_Witness ==
    /\ pc = "raised"
    /\ img_class.RasterXSize = img_class_ref.RasterXSize
    /\ img_class.RasterYSize = img_class_ref.RasterYSize
    /\ img_class.RasterCount = 1
    /\ img_class_ref.RasterCount = 1
    /\ img_class_ref.DataType = "GDT_UInt16"
    /\ fout = "path"
    /\ exc = Some([type |-> "ValueError", message |-> "Unexpected image datatype!"])

\* C14: the cells of the matrix returned by calculate_2d_class_histogram sum
\* to width times height, whether or not the tile size divides them.
C14_CellsSumToPixelCount ==
    pc \in {"save", "returned"} =>
        sum(counts) = img_class.RasterXSize * img_class.RasterYSize

C14_Witness ==
    /\ pc = "save"
    /\ img_class.RasterXSize = 3
    /\ img_class.RasterYSize = 3
    /\ tile_size = [x |-> 2, y |-> 2]
    /\ Len(reads) = 4
    /\ sum(counts) = 9

\* C15 as stated: every cell (c, r) of the matrix is the number of positions
\* where the class raster is exactly c and the reference raster exactly r.
C15_CellsCountExactValues ==
    pc = "save" =>
        \A c \in DOMAIN counts : \A r \in DOMAIN counts[c] :
            counts[c][r] =
                Cardinality({p \in Positions : ClassAt(p) = c /\ ReferenceAt(p) = r})

\* a window of ReadAsArray holds the position
InWindow(p, w) ==
    /\ w.offset_x <= p[1] /\ p[1] < w.offset_x + w.tsize_x
    /\ w.offset_y <= p[2] /\ p[2] < w.offset_y + w.tsize_y

\* C15, amended: every position is read in exactly one tile and no tile
\* reaches over the raster's edge; cell (c, r) is the number of positions
\* whose class value, lowered to the last row index n_class when above it, is
\* c and whose reference value, lowered to the last column index when above
\* it, is r. The tile size does not occur in the count.
C15_CellsCountClippedValues ==
    pc = "save" =>
        /\ \A p \in Positions :
               Cardinality({k \in 1..Len(reads) : InWindow(p, reads[k])}) = 1
        /\ \A k \in 1..Len(reads) :
               /\ reads[k].offset_x + reads[k].tsize_x <= img_class.RasterXSize
               /\ reads[k].offset_y + reads[k].tsize_y <= img_class.RasterYSize
               /\ reads[k].tsize_x \in 1..tile_size.x
               /\ reads[k].tsize_y \in 1..tile_size.y
        /\ \A c \in 0..n_class : \A r \in 0..MaxIndex(ref_classes) :
               counts[c][r] =
                   Cardinality({p \in Positions :
                       /\ Min(ClassAt(p), n_class) = c
                       /\ Min(ReferenceAt(p), MaxIndex(ref_classes)) = r})

C15_Witness ==
    /\ pc = "save"
    /\ img_class.RasterXSize = 3
    /\ tile_size.x = 2
    /\ \E p \in Positions : ClassAt(p) > n_class
    /\ \E p \in Positions : ReferenceAt(p) > MaxIndex(ref_classes)
    /\ counts[n_class][MaxIndex(ref_classes)] > 0

\* C16 as stated: both axes of the matrix have the size (maximum declared
\* reference index) + 1.
C16_BothAxesFromReferenceTable ==
    pc = "save" =>
        shape(counts) = <<MaxIndex(ref_classes) + 1, MaxIndex(ref_classes) + 1>>

\* C16, amended: the first axis has the size n_class + 1 of the classifier's
\* declared class count, only the second axis has the size (maximum declared
\* reference index) + 1.
C16_AxesFromClassCountAndReferenceTable ==
    pc = "save" =>
        /\ DOMAIN counts = 0..n_class
        /\ \A c \in DOMAIN counts : DOMAIN counts[c] = 0..MaxIndex(ref_classes)

C16_Witness ==
    /\ pc = "save"
    /\ n_class # MaxIndex(ref_classes)
    /\ Cardinality(DOMAIN counts) # Cardinality(DOMAIN counts[0])

DeclaredIndices == {ref_classes[k].index : k \in DOMAIN ref_classes}

\* C17: in the report, the total of the last row, "Other", is the number of
\* pixels whose reference value is no declared class index, and the totals
\* of the class rows and of the "Other" row together count no pixel twice.
C17_OtherRowCountsUndeclaredOnly ==
    pc = "returned" =>
        LET rows == out.rows
            other == rows[Len(rows)]
            ClassTotals == [k \in 1..Len(ref_classes) |-> rows[2 + k][2]]
        IN  /\ other[1] = <<"Other">>
            /\ other[2] =
                   Cardinality({p \in Positions : ReferenceAt(p) \notin DeclaredIndices})
            /\ SumOver(ClassTotals, DOMAIN ClassTotals) + other[2]
                   <= img_class.RasterXSize * img_class.RasterYSize

\* C18 as stated: every row has N_ref + 2 fields, N_ref being a number of
\* the reference class table (its length, its maximum index, or the size of
\* the matrix axis made from it).
C18_RowLengthFromReferenceTable ==
    pc = "returned" =>
        \E N_ref \in {Len(ref_classes), MaxIndex(ref_classes),
                      MaxIndex(ref_classes) + 1} :
            \A k \in 1..Len(out.rows) : Len(out.rows[k]) = N_ref + 2

\* C18, amended: the report has a header, a pixel-count row, one row per
\* declared class and an "Other" row, and every row has n_class + 3 fields
\* (label, total, n_class class counts, other) for the classifier's declared
\* class count n_class.
C18_RowLengthFromClassCount ==
    pc = "returned" =>
        /\ Len(out.rows) = Len(ref_classes) + 3
        /\ \A k \in 1..Len(out.rows) : Len(out.rows[k]) = n_class + 3

C18_Witness ==
    /\ pc = "returned"
    /\ n_class = 3
    /\ MaxIndex(ref_classes) = 2
    /\ Len(out.rows) = 5
    /\ Len(out.rows[1]) = 6

\* ---------------------------------------- properties of rasterize_shapes

\* some class of the table has the feature's value of the source attribute
HasClass(feature) ==
    /\ feature.field # None
    /\ \E k \in DOMAIN classes :
           /\ attrib \in DOMAIN classes[k].attrib
           /\ classes[k].attrib[attrib] = feature.field[1]

\* C19: the in-memory layer holds, in reading order, one feature for each
\* fetched source feature whose value of the source attribute is the value
\* of some class, with that feature's geometry and the index of such a class
\* as its only field; fetched features of any other value, or of none, are
\* left out.
C19_LayerHoldsMatchedFeaturesOnly ==
    pc \in {"features", "rasterize", "returned"} =>
        LET matched == SelectSeq(fetched, HasClass)
        IN  /\ Len(virt_layer) = Len(matched)
            /\ \A i \in 1..Len(matched) :
                   /\ virt_layer[i].geometry = matched[i].geometry
                   /\ DOMAIN virt_layer[i].fields = {"index"}
                   /\ \E k \in DOMAIN classes :
                          /\ attrib \in DOMAIN classes[k].attrib
                          /\ classes[k].attrib[attrib] = matched[i].field[1]
                          /\ virt_layer[i].fields["index"] = classes[k].index

C19_Witness ==
    /\ pc = "rasterize"
    /\ Len(virt_layer) = 2
    /\ Len(fetched) = 4
    /\ \E i \in 1..Len(fetched) : fetched[i].field = None
    /\ \E i \in 1..Len(fetched) : fetched[i].field = Some("999")

\* the feature intersects the box get_bbox returned
IntersectsBBox(feature) ==
    Intersects(feature.geometry, Rect(bbox[1][1], bbox[1][2], bbox[1][3], bbox[1][4]))

\* C20: the rectangle given to the layer's spatial filter is the expanded
\* bounding box (minx, miny, maxx, maxy) that get_bbox returned, and the
\* features fetched are the layer's features intersecting that box.
C20_FilterRectIsExpandedBBox ==
    /\ pc \in {"features", "rasterize", "returned"} => filter_rect = bbox
    /\ pc \in {"rasterize", "returned"} =>
           fetched = SelectSeq(source.features, IntersectsBBox)

\* C21: with a layer name that the source dataset does not have, the call
\* never gets past get_layer: it fails with the ValueError "Invalid layer
\* name.", the template is not opened (no bounding box is taken from it, no
\* filter set, no feature read) and no step removes or replaces the output
\* file.
C21_MissingLayerFailsBeforeTemplate ==
    /\ [](layer_name \notin source.layers =>
            /\ pc \in {"get_layer", "raised"}
            /\ pc = "raised" =>
                   exc = Some([type |-> "ValueError", message |-> "Invalid layer name."])
            /\ bbox = None
            /\ filter_rect = None
            /\ fetched = <<>>
            /\ output \in {NoFile, OldFile})
    /\ [][layer_name \notin source.layers => output' = output]_vars

C21_Witness ==
    /\ pc = "raised"
    /\ layer_name = "clc2006"
    /\ layer_name \notin source.layers
    /\ output = OldFile
    /\ bbox = None

\* ------------------------------------ properties of GetPixelValue.execute

\* the location lies outside the image of a data item
OutsideRaster(data_item) ==
    LET uv == PixelCoordinates(data_item.dataset, latitude, longitude)
    IN  ~ (/\ 0 <= uv[1] /\ uv[1] < data_item.dataset.RasterXSize
           /\ 0 <= uv[2] /\ uv[2] < data_item.dataset.RasterYSize)

\* C22: when the pixel coordinates of the location lie outside the image of
\* some band item of the coverage (u = width and v = height included), the
\* call never fails and what it returns is the empty string.
C22_OutsideRasterGivesEmptyString ==
    (/\ data_items # None
     /\ \E i \in 1..Len(data_items[1]) :
            /\ data_items[1][i].semantic # "metadata"
            /\ OutsideRaster(data_items[1][i]))
    => /\ pc # "raised"
       /\ pc = "returned" => result = Some(<<>>)

\* ------------------------------------- properties of process_sits

\* the positions of the stage calls in the log
Calls == {j \in DOMAIN events : events[j].kind = "call"}

CallOf(stage) == {j \in Calls : events[j].message = stage}

\* C23 as stated: the progress callback is also called at the completion of
\* every coverage, i.e. between the call of download_coverages and the
\* report of the algorithm start there is one progress report for each
\* downloaded image.
C23_ProgressAtEveryCoverage ==
    \A j \in CallOf("lda_wrapper") : \A i \in CallOf("download_coverages") :
        Cardinality({k \in (i + 1)..(j - 2) : events[k].kind = "progress"})
            >= Len(images)

\* C23, amended: every stage call is directly preceded by the progress
\* report that announces it (0 download, 5 algorithm, 95 rasterization, 98
\* statistics), the stages are called in that order and each at most once,
\* nothing is reported between the call of download_coverages and the
\* report of the algorithm start, and a finished run has made all four.
C23_StagesAnnouncedInOrder ==
    LET Percent(stage) ==
            CASE stage = "download_coverages" -> 0
              [] stage = "lda_wrapper" -> 5
              [] stage = "rasterize_shapes" -> 95
              [] stage = "write_class_statistics" -> 98
    IN  /\ \A j \in Calls :
               /\ j > 1
               /\ events[j - 1].kind = "progress"
               /\ events[j - 1].percent = Percent(events[j].message)
        /\ \A i \in Calls : \A j \in Calls :
               i < j => Percent(events[i].message) < Percent(events[j].message)
        /\ \A j \in CallOf("lda_wrapper") : (j - 2) \in CallOf("download_coverages")
        /\ pc = "finished" => Cardinality(Calls) = 4

C23_Witness ==
    /\ pc = "finished"
    /\ Len(images) = 2
    /\ Cardinality(Calls) = 4
    /\ Len(events) = 10
    /\ events[5].percent = 20

\* ---- C24

\* s is of the canonical form: the prefix
\* http://www.opengis.net/def/crs/EPSG/0/ followed by one or more digits and
\* nothing else
Canonical(s) ==
    /\ Len(s) > Len(SrsPrefix)
    /\ SubSeq(s, 1, Len(SrsPrefix)) = SrsPrefix
    /\ \A i \in (Len(SrsPrefix) + 1)..Len(s) : IsDigit(s[i])

\* C24: parse_srs gives back the code pack_srs was called with, and it
\* returns None for every string that is not of the canonical form
C24_RoundTripAndNoneForNonCanonical ==
    /\ pc = "parsed packed" => result = Some(Some(srid_arg))
    /\ pc = "parsed" /\ ~Canonical(srs_arg) => result = Some(None)

\* ---- C25

\* the WPS execution w leaves execute in this step, by return or by raise
ExecuteEnds(w) ==
    /\ pc[w] \in {"initialized", "get_sits", "process_sits"}
    /\ pc'[w] \in {"returned", "raised"}

\* C25: when execute ends for a job that initialize has set to ACCEPTED, the
\* status of the job is FINISHED if execute returned and FAILED if it raised
C25_ExecuteEndsFinishedOrFailed ==
    [][\A w \in Workers :
          ExecuteEnds(w) /\ job_id[w] # None =>
              jobs'[job_id[w][1]].status =
                  IF pc'[w] = "returned" THEN FINISHED ELSE FAILED]_vars

\* ---- C26

\* C26: once wps_job_id of a job is set it is never overwritten, and an
\* initialize that has read the job with wps_job_id set is rejected
C26_WpsJobIdSetOnce ==
    [][/\ \A id \in JobIdentifiers :
            jobs[id].wps_job_id # None =>
                jobs'[id].wps_job_id = jobs[id].wps_job_id
       /\ \A w \in Workers :
            /\ pc[w] = "job read"
            /\ pc'[w] # "job read"
            /\ job[w][1].wps_job_id # None
            => /\ pc'[w] = "rejected"
               /\ exc'[w] = Some(NoApplicableCode(
                                 "The job has been already executed!"))]_vars

\* ---- C27

\* this step serves a request of the method on the view
Served(view, method) ==
    /\ request' # None
    /\ request'[1].view = view
    /\ request'[1].method = method

C28_InputsChangeOnlyWhileCreated ==
    [][\A id \in DOMAIN jobs :
          jobs[id].status # CREATED =>
              /\ id \in DOMAIN jobs' => jobs'[id].inputs = jobs[id].inputs
              /\ Served("job_item_view", "PUT") => id \in DOMAIN jobs']_vars

\* the owner has sent name, description and inputs for a job that is
\* FINISHED: the answer is 200, name and description are the new ones and
\* the inputs are the old ones
C28_Witness ==
    /\ request # None
    /\ request[1].view = "job_item_view"
    /\ request[1].method = "PUT"
    /\ request[1].body = [name |-> "a", description |-> "b", inputs |-> 1]
    /\ reply = Some(200)
    /\ "job-1" \in DOMAIN jobs
    /\ jobs["job-1"].status = FINISHED
    /\ jobs["job-1"].name = Some("a")
    /\ jobs["job-1"].description = Some("b")
    /\ jobs["job-1"].inputs = json_dumps(0)

\* ---- C29

\* the time series has a job, is not editable or is not owned by the user
Frozen(id, user) ==
    \/ ~time_series[id].editable
    \/ time_series[id].owner # user
    \/ \E j \in DOMAIN jobs : jobs[j].time_series = id

\* this step serves a request that links or unlinks a coverage
CoverageRequestServed ==
    \/ Served("time_series_item_view", "POST")
    \/ Served("time_series_coverage_view", "PUT")
    \/ Served("time_series_coverage_view", "DELETE")

\* the request gets as far as the test of the view: the user is an active
\* user whose query finds the time series, and if the user owns it the body
\* parses and the coverage named on time_series_coverage_view is found
ReachesTest(req) ==
    /\ req.user \in Users
    /\ QuerySetGet(time_series, req.user, req.identifier) = "found"
    /\ time_series[req.identifier].owner = req.user =>
           /\ req.body # Malformed
           /\ req.view = "time_series_coverage_view" =>
                  req.coverage \in (IF req.method = "PUT" THEN SourceCoverages
                                    ELSE links[req.identifier])

\* C29 as stated: every coverage POST, PUT and DELETE for a time series that
\* has a job, is not editable or is not owned by the user is answered 405
\* and leaves the linked coverages unchanged
C29_EveryCoverageRequestAnswered405 ==
    [][\A id \in DOMAIN time_series :
          /\ CoverageRequestServed
          /\ Frozen(id, request'[1].user)
          => /\ reply' = Some(405)
             /\ links' = links]_vars

\* C29: every coverage POST, PUT and DELETE for such a time series leaves
\* the linked coverages unchanged and is not answered with a success; it is
\* answered 405 when it gets as far as the test of the view
C29_FrozenMembership ==
    [][\A id \in DOMAIN time_series :
          /\ CoverageRequestServed
          /\ Frozen(id, request'[1].user)
          => /\ links' = links
             /\ reply' \in {Some(401), Some(404), Some(400), Some(500), Some(405)}
             /\ ReachesTest(request'[1]) => reply' = Some(405)]_vars

\* the owner of an editable time series with a job has asked to unlink a
\* linked coverage: the answer is 405 and the coverage is still linked
C29_Witness ==
    /\ request # None
    /\ request[1].view = "time_series_coverage_view"
    /\ request[1].method = "DELETE"
    /\ "sits-1" \in DOMAIN time_series
    /\ time_series["sits-1"].owner = request[1].user
    /\ time_series["sits-1"].editable
    /\ \E j \in DOMAIN jobs : jobs[j].time_series = "sits-1"
    /\ request[1].coverage \in links["sits-1"]
    /\ reply = Some(405)

\* ---- C30

\* the object is shared with the user or with a group of the user, and the
\* user does not own it
ReadsButDoesNotOwn(table, id, user) ==
    /\ id \in DOMAIN table
    /\ table[id].owner # user
    /\ \/ user \in table[id].readers
       \/ \E group \in Groups(user) : group \in table[id].readers

\* the table of the objects the view is about
TableOf(view) == IF view = "job_item_view" THEN jobs ELSE time_series

\* C30: a PUT, POST or DELETE on job_item_view, time_series_item_view or
\* time_series_coverage_view by a user who can read the object and does not
\* own it is answered 405 and leaves the jobs, the time series and the
\* linked coverages unchanged
C30_ReaderIsAnswered405 ==
    [][/\ request' # None
       /\ request'[1].view \in {"job_item_view", "time_series_item_view",
                                "time_series_coverage_view"}
       /\ request'[1].method \in {"PUT", "POST", "DELETE"}
       /\ ReadsButDoesNotOwn(TableOf(request'[1].view), request'[1].identifier,
                             request'[1].user)
       => /\ reply' = Some(405)
          /\ jobs' = jobs
          /\ time_series' = time_series
          /\ links' = links]_vars

====
